---- MODULE Spec2Model ----
(***************************************************************************)
(* A model of the retrieval-and-chunking core of the Runops repository:    *)
(* the word-window chunker (both indexers), the indexing pipelines writing *)
(* to the vector collection, and the query engines reading from it.        *)
(*                                                                         *)
(* Text is a sequence of one-character strings.  The vector store, the     *)
(* embedding model and the LLM endpoints are external collaborators: their *)
(* answers are inputs, chosen nondeterministically.                        *)
(***************************************************************************)
EXTENDS Integers, Sequences, FiniteSets, TLC

VARIABLES
  \* ---- chunk_text under test (both indexers) ----
  text,         \* the text handed to chunk_text
  chunk_size,   \* EfficientRunbookIndexer.chunk_size / chunk_text's chunk_size
  overlap,      \* EfficientRunbookIndexer.overlap / chunk_text's overlap
  eff_pc,       \* position inside EfficientRunbookIndexer.chunk_text
  words,        \* its local: text.split()
  start,        \* its local: start
  chunks,       \* its local and result: chunks
  fed_from,     \* the chunk list whose element was fed back as the text
  ri_pc,        \* position inside RunbookIndexer.chunk_text
  ri_words,     \* its local: words
  ri_start,     \* its local: start
  ri_end,       \* its local: end
  ri_chunks,    \* its local and result: chunks
  \* ---- the document store and the vector collection ----
  documents,    \* the "runbooks" list of devops_runbooks.json
  collection,   \* the records of the Chroma collection "runbook_chunks", in insertion order
  \* ---- EfficientRunbookIndexer.index_runbooks ----
  ix_pc,        \* position inside index_runbooks
  runbooks,     \* its local: runbooks (as loaded from the file)
  batch_size,   \* its parameter: batch_size
  batch_start,  \* its local: batch_start
  total_chunks, \* its local: total_chunks
  ix_start_coll,\* history: the collection when the run started
  ix_redo,      \* history: the run re-indexes the documents of the last completed run
  ix_log,       \* history: what each batch of the run took, embedded and stored
  indexed_current, \* history: the last write was a completed run over the present documents
  \* ---- RunbookIndexer.index_runbooks ----
  rb_pc,        \* position inside index_runbooks
  rb_runbooks,  \* its local: runbooks
  all_chunks,   \* its local: all_chunks
  rb_i,         \* its local: i, the start of the batch being added
  \* ---- the query engines ----
  use_vector_search, \* SimpleRAGSystem.use_vector_search, set by init_chroma
  runbooks_data,     \* SimpleRAGSystem.runbooks_data['runbooks'], loaded at construction
  op,                \* the call that was handled last, "none" between calls
  query,             \* its argument: query
  top_k,             \* its argument: top_k
  index_raised,      \* whether the collection's query call (or the embedding before it) raised
  results,           \* the list returned by search_chunks / search_relevant_chunks
  answer_chunks,     \* the chunks handed to generate_answer / format_context_for_llm
  response,          \* the dictionary returned by process_query
  calls,             \* the collaborators reached while handling the call
  escaped,           \* whether the call ended by raising instead of returning
  failures,          \* the collaborator calls that failed during the call
  \* ---- the web applications (simple_web_app.py, test/web_app.py) ----
  app,               \* which of the two applications the process runs
  rag_processor,     \* the module global rag_processor: "None" or the class of the object
  req_pc,            \* for each request thread, its position inside index()
  constructed,       \* history: how many engine objects the process has constructed
  chroma_open,       \* history: how opening the collection ended for the engine in use,
                     \* or at the last attempt while there is none
  web_response,      \* the response sent last
  \* ---- a recorded sequence of process_query calls ----
  session,           \* history: the mode set at construction, one earlier call with what
                     \* it returned, the last call's input, and whether a call made
                     \* after the earlier one had its vector query raise
  \* ---- the webhook listener (webhook_listener.py, specific.py) ----
  store,             \* the runbooks list of the file devops_runbooks.json
  hook_pc,           \* for each webhook request thread, its position inside confluence_webhook()
  hook_pages,        \* for each thread, its local: pages
  hook_existing      \* for each thread, the runbooks list of its local: existing

chunkVars == <<text, chunk_size, overlap, eff_pc, words, start, chunks, fed_from,
               ri_pc, ri_words, ri_start, ri_end, ri_chunks>>

indexVars == <<documents, collection, ix_pc, runbooks, batch_size, batch_start,
               total_chunks, ix_start_coll, ix_redo, ix_log, indexed_current,
               rb_pc, rb_runbooks, all_chunks, rb_i>>

queryVars == <<use_vector_search, runbooks_data, op, query, top_k, index_raised,
               results, answer_chunks, response, calls, escaped,
               failures>>

webVars == <<app, rag_processor, req_pc, constructed, chroma_open, web_response>>

hookVars == <<store, hook_pc, hook_pages, hook_existing>>

outerVars == <<webVars, session, hookVars>>

vars == <<chunkVars, indexVars, queryVars, outerVars>>

-----------------------------------------------------------------------------
(* Bounds of the model *)

MaxTextLen == 6      \* longest enumerated input text, in characters
MaxChunkSize == 2    \* largest enumerated chunk_size
MaxOverlap == 2      \* largest enumerated overlap
MaxChunks == 4       \* a chunk loop is followed for at most this many chunks

MaxRequests == 2     \* request threads of the web server that are followed
MaxHooks == 2        \* webhook requests handled at the same time
MaxFetched == 2      \* most pages one fetch_child_pages call returns

(* Program constants *)

DefaultChunkSize == 400
DefaultOverlap == 50

-----------------------------------------------------------------------------
(* Integers and sequences *)

Min(a, b) == IF a < b THEN a ELSE b
Max(a, b) == IF a > b THEN a ELSE b

\* Python's s[a:b] for a list: negative indices count from the end and both
\* ends are clamped to the list.
PySlice(s, a, b) ==
  LET n == Len(s)
      norm(i) == IF i < 0 THEN Max(i + n, 0) ELSE Min(i, n)
  IN SubSeq(s, norm(a) + 1, norm(b))

\* The sequences over S of length at most n.
SeqsUpTo(S, n) == UNION {[1..k -> S] : k \in 0..n}

-----------------------------------------------------------------------------
(* Strings *)

Whitespace == {" ", "\t", "\n"}

isspace(c) == c \in Whitespace

\* str.split() with no separator: the maximal runs of non-whitespace.
split(t) ==
  LET idx == [i \in 1..Len(t) |-> i]
      starts == SelectSeq(idx, LAMBDA i : ~isspace(t[i]) /\ (i = 1 \/ isspace(t[i-1])))
      ends == SelectSeq(idx, LAMBDA i : ~isspace(t[i]) /\ (i = Len(t) \/ isspace(t[i+1])))
  IN [k \in 1..Len(starts) |-> SubSeq(t, starts[k], ends[k])]

\* sep.join(parts[lo..hi]), by halves.
RECURSIVE JoinRange(_, _, _, _)
JoinRange(sep, parts, lo, hi) ==
  IF lo > hi THEN <<>>
  ELSE IF lo = hi THEN parts[lo]
  ELSE LET mid == (lo + hi) \div 2
       IN JoinRange(sep, parts, lo, mid) \o sep \o JoinRange(sep, parts, mid + 1, hi)

\* ' '.join(parts)
join(parts) == JoinRange(<<" ">>, parts, 1, Len(parts))

Digit(d) == <<"0", "1", "2", "3", "4", "5", "6", "7", "8", "9">>[d + 1]

\* str(n) for a natural number n
RECURSIVE str(_)
str(n) == IF n < 10 THEN <<Digit(n)>> ELSE Append(str(n \div 10), Digit(n % 10))

-----------------------------------------------------------------------------
(* Inputs of the chunker *)

TextChars == {"a", "b", " "}

\* A document of n numbered words, "1 2 3 ... n".
NumberedText(n) == join([i \in 1..n |-> str(i)])

\* The document of the 450-word scenario: more words than the default
\* chunk size, fewer than two full windows.
ScenarioText == NumberedText(DefaultChunkSize + DefaultOverlap)

ChunkInputs ==
  { <<t, cs, ov>> : t \in SeqsUpTo(TextChars, MaxTextLen),
                    cs \in 1..MaxChunkSize, ov \in 0..MaxOverlap }
  \cup { <<ScenarioText, DefaultChunkSize, DefaultOverlap>> }

-----------------------------------------------------------------------------
(* EfficientRunbookIndexer.chunk_text, one loop iteration per step *)

\* start = end - self.overlap
EffNextStartNoOverlap(end, ov) == end

EffNextStart(end, ov) == end - ov

\* if len(words) <= self.chunk_size: return [text]
EffSingleChunkJoined(t) == <<join(split(t))>>

EffSingleChunk(t) == <<t>>

EffChunkCall ==
  /\ eff_pc = "ready"
  /\ ri_pc # "loop"
  /\ words' = split(text)
  /\ IF Len(words') <= chunk_size
     THEN /\ chunks' = EffSingleChunk(text)
          /\ eff_pc' = "done"
     ELSE /\ chunks' = <<>>
          /\ eff_pc' = "loop"
  /\ start' = 0
  /\ UNCHANGED <<text, chunk_size, overlap, fed_from,
                 ri_pc, ri_words, ri_start, ri_end, ri_chunks>>
  /\ UNCHANGED indexVars
  /\ UNCHANGED queryVars
  /\ UNCHANGED outerVars

\* One pass through the body of `while start < len(words)`.
EffIterate(ws, cs, ov, st, ch) ==
  IF st < Len(ws)
  THEN LET end == Min(st + cs, Len(ws))
           chunk == join(PySlice(ws, st, end))
       IN IF end = Len(ws)
          THEN [pc |-> "done", start |-> st, chunks |-> Append(ch, chunk)]
          ELSE [pc |-> "loop", start |-> EffNextStart(end, ov), chunks |-> Append(ch, chunk)]
  ELSE [pc |-> "done", start |-> st, chunks |-> ch]

EffChunkIter ==
  /\ eff_pc = "loop"
  /\ Len(chunks) < MaxChunks
  /\ LET r == EffIterate(words, chunk_size, overlap, start, chunks)
     IN /\ eff_pc' = r.pc
        /\ start' = r.start
        /\ chunks' = r.chunks
  /\ UNCHANGED <<text, chunk_size, overlap, words, fed_from,
                 ri_pc, ri_words, ri_start, ri_end, ri_chunks>>
  /\ UNCHANGED indexVars
  /\ UNCHANGED queryVars
  /\ UNCHANGED outerVars

\* A returned chunk is handed to chunk_text again.
EffRechunk ==
  /\ eff_pc = "done"
  /\ fed_from = <<>>
  /\ \E k \in 1..Len(chunks) :
       /\ text' = chunks[k]
       /\ fed_from' = chunks
  /\ eff_pc' = "ready"
  /\ words' = <<>>
  /\ start' = 0
  /\ chunks' = <<>>
  /\ UNCHANGED <<chunk_size, overlap, ri_pc, ri_words, ri_start, ri_end, ri_chunks>>
  /\ UNCHANGED indexVars
  /\ UNCHANGED queryVars
  /\ UNCHANGED outerVars

-----------------------------------------------------------------------------
(* RunbookIndexer.chunk_text, one loop iteration per step *)

RIChunkCall ==
  /\ ri_pc = "ready"
  /\ eff_pc # "loop"
  /\ IF text = <<>>
     THEN /\ ri_words' = <<>>
          /\ ri_chunks' = <<>>
          /\ ri_pc' = "done"
     ELSE /\ ri_words' = split(text)
          /\ IF Len(ri_words') <= chunk_size
             THEN /\ ri_chunks' = <<text>>
                  /\ ri_pc' = "done"
             ELSE /\ ri_chunks' = <<>>
                  /\ ri_pc' = "loop"
  /\ ri_start' = 0
  /\ ri_end' = 0
  /\ UNCHANGED <<text, chunk_size, overlap, eff_pc, words, start, chunks, fed_from>>
  /\ UNCHANGED indexVars
  /\ UNCHANGED queryVars
  /\ UNCHANGED outerVars

\* One pass through the body of `while start < len(words)`.
RIIterate(ws, cs, ov, st, en, ch) ==
  IF st < Len(ws)
  THEN LET end == Min(st + cs, Len(ws))
           chunk == join(PySlice(ws, st, end))
           nstart == end - ov
       IN [pc |-> IF nstart >= Len(ws) THEN "done" ELSE "loop",
           start |-> nstart, end |-> end, chunks |-> Append(ch, chunk)]
  ELSE [pc |-> "done", start |-> st, end |-> en, chunks |-> ch]

RIChunkIter ==
  /\ ri_pc = "loop"
  /\ Len(ri_chunks) < MaxChunks
  /\ LET r == RIIterate(ri_words, chunk_size, overlap, ri_start, ri_end, ri_chunks)
     IN /\ ri_pc' = r.pc
        /\ ri_start' = r.start
        /\ ri_end' = r.end
        /\ ri_chunks' = r.chunks
  /\ UNCHANGED <<text, chunk_size, overlap, eff_pc, words, start, chunks, fed_from,
                 ri_words>>
  /\ UNCHANGED indexVars
  /\ UNCHANGED queryVars
  /\ UNCHANGED outerVars

-----------------------------------------------------------------------------
(* chunk_text as a function: the loops above run to their end *)

\* A pass that leaves the loop running with start not advanced is repeated
\* for ever: the call does not return.
RECURSIVE EffLoop(_, _, _, _, _)
EffLoop(ws, cs, ov, st, ch) ==
  LET r == EffIterate(ws, cs, ov, st, ch)
  IN IF r.pc = "done" THEN [returns |-> TRUE, chunks |-> r.chunks]
     ELSE IF r.start <= st THEN [returns |-> FALSE, chunks |-> <<>>]
     ELSE EffLoop(ws, cs, ov, r.start, r.chunks)

EffChunkText(t, cs, ov) ==
  LET ws == split(t)
  IN IF Len(ws) <= cs
     THEN [returns |-> TRUE, chunks |-> EffSingleChunk(t)]
     ELSE EffLoop(ws, cs, ov, 0, <<>>)

RECURSIVE RILoop(_, _, _, _, _)
RILoop(ws, cs, ov, st, ch) ==
  LET r == RIIterate(ws, cs, ov, st, 0, ch)
  IN IF r.pc = "done" THEN [returns |-> TRUE, chunks |-> r.chunks]
     ELSE IF r.start <= st THEN [returns |-> FALSE, chunks |-> <<>>]
     ELSE RILoop(ws, cs, ov, r.start, r.chunks)

RIChunkText(t, cs, ov) ==
  IF t = <<>> THEN [returns |-> TRUE, chunks |-> <<>>]
  ELSE LET ws == split(t)
       IN IF Len(ws) <= cs
          THEN [returns |-> TRUE, chunks |-> <<t>>]
          ELSE RILoop(ws, cs, ov, 0, <<>>)

-----------------------------------------------------------------------------
(* clean_text (the same three substitutions in both indexers) *)

LowerLetters == {"a", "b", "c", "d", "e", "f", "g", "h", "i", "j", "k", "l", "m",
                 "n", "o", "p", "q", "r", "s", "t", "u", "v", "w", "x", "y", "z"}
UpperLetters == {"A", "B", "C", "D", "E", "F", "G", "H", "I", "J", "K", "L", "M",
                 "N", "O", "P", "Q", "R", "S", "T", "U", "V", "W", "X", "Y", "Z"}
DigitChars == {"0", "1", "2", "3", "4", "5", "6", "7", "8", "9"}

\* \w
WordChars == LowerLetters \cup UpperLetters \cup DigitChars \cup {"_"}

\* [\w\s\.\!\?\,\:\;\-\(\)]
KeptChars == WordChars \cup Whitespace \cup {".", "!", "?", ",", ":", ";", "-", "(", ")"}

\* The subsequence of t at the positions that satisfy Keep.
SelectAt(t, Keep(_)) ==
  LET kept == SelectSeq([i \in 1..Len(t) |-> i], Keep)
  IN [k \in 1..Len(kept) |-> t[kept[k]]]

\* re.sub(r'<[^>]+>', '', text): position p lies in a match when some "<" at
\* or before it is followed by at least one character and then its first ">"
\* at or after p.
RemoveTags(t) ==
  LET InTag(p) ==
        \E i \in 1..p : /\ t[i] = "<"
                        /\ \E j \in p..Len(t) :
                             /\ t[j] = ">"
                             /\ j >= i + 2
                             /\ \A k \in (i + 1)..(j - 1) : t[k] # ">"
  IN SelectAt(t, LAMBDA p : ~InTag(p))

\* re.sub(r'\s+', ' ', text)
CollapseWhitespace(t) ==
  LET u == SelectAt(t, LAMBDA p : ~isspace(t[p]) \/ p = 1 \/ ~isspace(t[p - 1]))
  IN [i \in 1..Len(u) |-> IF isspace(u[i]) THEN " " ELSE u[i]]

\* re.sub(r'[^\w\s\.\!\?\,\:\;\-\(\)]', ' ', text)
BlankOtherChars(t) == [i \in 1..Len(t) |-> IF t[i] \in KeptChars THEN t[i] ELSE " "]

\* str.strip()
strip(t) ==
  LET inked == SelectSeq([i \in 1..Len(t) |-> i], LAMBDA i : ~isspace(t[i]))
  IN IF inked = <<>> THEN <<>>
     ELSE SubSeq(t, inked[1], inked[Len(inked)])

clean_text(t) == strip(BlankOtherChars(CollapseWhitespace(RemoveTags(t))))

-----------------------------------------------------------------------------
(* Documents *)

MaxDocs == 2          \* most runbooks in one snapshot of the JSON file
MaxBatchSize == 2     \* largest enumerated batch_size
IxChunkSize == 5      \* chunk_size of the modelled EfficientRunbookIndexer
IxOverlap == 2        \* overlap of the modelled EfficientRunbookIndexer

MinCleanedLen == 50
RIAddBatch == 1000

DocIds == {<<"A">>, <<"B">>}

\* The i-th word of a body written in letter c: nine letters and the number.
WordOf(c, i) == [k \in 1..9 |-> c] \o str(i)

BodyOf(c, n) == join([i \in 1..n |-> WordOf(c, i)])

\* Too short to be indexed; one chunk, wrapped in markup; two chunks.
ShortBody == BodyOf("a", 4)
OneChunkBody == <<"<", "p", ">">> \o BodyOf("a", 5) \o <<"<", "/", "p", ">", "\n", "@">>
TwoChunkBody == BodyOf("b", 8)

Bodies == {ShortBody, OneChunkBody, TwoChunkBody}

Doc(id, body) ==
  [id |-> id, title |-> <<"T">> \o id, url |-> <<"u">> \o id, body |-> body]

Docs == {Doc(id, b) : id \in DocIds, b \in Bodies}

\* A runbook of more words than the default chunk size.
LongDoc == Doc(<<"A">>, ScenarioText)

\* The snapshots of the file: document identifiers are unique.
Snapshots ==
  {ds \in SeqsUpTo(Docs, MaxDocs) :
     \A i, j \in 1..Len(ds) : i # j => ds[i].id # ds[j].id}

-----------------------------------------------------------------------------
(* process_runbook *)

\* f"{runbook.get('id', ...)}_{i}"
ChunkIdOfDocument(id, i) == id \o <<"_">>
ChunkId(id, i) == id \o <<"_">> \o str(i)

\* The chunk_datas of one runbook, given the chunks of its cleaned text.
ChunkDatas(rb, cks) ==
  [k \in 1..Len(cks) |->
     [id |-> ChunkId(rb.id, k - 1),
      text |-> cks[k],
      runbook_id |-> rb.id,
      runbook_title |-> rb.title,
      runbook_url |-> rb.url,
      chunk_index |-> k - 1,
      total_chunks |-> Len(cks),
      word_count |-> Len(split(cks[k]))]]

\* EfficientRunbookIndexer.process_runbook
EffProcessRunbook(rb, cs, ov) ==
  LET cleaned == clean_text(rb.body)
  IN IF Len(cleaned) < MinCleanedLen
     THEN [returns |-> TRUE, chunk_datas |-> <<>>]
     ELSE LET c == EffChunkText(cleaned, cs, ov)
          IN [returns |-> c.returns, chunk_datas |-> ChunkDatas(rb, c.chunks)]

\* RunbookIndexer.process_runbook: chunk_text is called with its defaults.
RIProcessRunbook(rb) ==
  LET cleaned == clean_text(rb.body)
  IN IF cleaned = <<>> \/ Len(cleaned) < MinCleanedLen
     THEN [returns |-> TRUE, chunk_datas |-> <<>>]
     ELSE LET c == RIChunkText(cleaned, DefaultChunkSize, DefaultOverlap)
          IN [returns |-> c.returns, chunk_datas |-> ChunkDatas(rb, c.chunks)]

\* The concatenation of a sequence of lists.
RECURSIVE Concat(_)
Concat(ls) == IF ls = <<>> THEN <<>> ELSE ls[1] \o Concat(Tail(ls))

\* process_runbook of every enumerated document, computed once.
EffProcessed == [d \in Docs |-> EffProcessRunbook(d, IxChunkSize, IxOverlap)]
RIProcessed == [d \in Docs |-> RIProcessRunbook(d)]

\* self.process_runbook(runbook, i) of the indexer configured as the state says.
EffProcessRunbookAt(rb) ==
  IF chunk_size = IxChunkSize /\ overlap = IxOverlap /\ rb \in Docs
  THEN EffProcessed[rb]
  ELSE EffProcessRunbook(rb, chunk_size, overlap)

\* self.process_runbook(runbook)
RIProcessRunbookAt(rb) == IF rb \in Docs THEN RIProcessed[rb] ELSE RIProcessRunbook(rb)

-----------------------------------------------------------------------------
(* The Chroma collection *)

CollIds(coll) == {coll[i].id : i \in 1..Len(coll)}

HasDuplicateIds(recs) == \E i, j \in 1..Len(recs) : i # j /\ recs[i].id = recs[j].id

\* collection.add(ids=..., embeddings=..., metadatas=..., documents=...):
\* a record whose id is already stored is left as it is, the others are
\* appended.
ChromaAddAppendAll(coll, recs) == coll \o recs

ChromaAdd(coll, recs) == coll \o SelectSeq(recs, LAMBDA r : r.id \notin CollIds(coll))

-----------------------------------------------------------------------------
(* EfficientRunbookIndexer.embed_and_store and index_runbooks, one batch per step *)

\* What the collaborators of embed_and_store may do: nothing is called for an
\* empty batch; otherwise the embedding model or the collection may raise,
\* and the collection rejects a batch that repeats an id.
EmbedStoreOutcomes(chunk_datas) ==
  IF chunk_datas = <<>> THEN {"ok"}
  ELSE IF HasDuplicateIds(chunk_datas) THEN {"embed_raises", "add_raises"}
  ELSE {"ok", "embed_raises", "add_raises"}

\* The collection after embed_and_store(chunk_datas) returns.
EmbedAndStore(coll, chunk_datas) ==
  IF chunk_datas = <<>> THEN coll ELSE ChromaAdd(coll, chunk_datas)

\* The collection after embed_and_store(chunk_datas) raised at
\* embedding_model.encode: collection.add, which follows it, was not called.
EmbedRaisedAfterFirstAdd(coll, chunk_datas) == ChromaAdd(coll, <<chunk_datas[1]>>)
EmbedRaised(coll, chunk_datas) == coll

\* The calls embed_and_store(chunk_datas) makes, in the order it makes them:
\* none for an empty list, else embedding_model.encode and, when that
\* returned, collection.add with every chunk record.
EmbedStoreCalls(chunk_datas, outcome) ==
  IF chunk_datas = <<>> THEN <<>>
  ELSE IF outcome = "embed_raises" THEN <<[call |-> "encode", n |-> Len(chunk_datas)]>>
  ELSE <<[call |-> "encode", n |-> Len(chunk_datas)],
         [call |-> "add", n |-> Len(chunk_datas)]>>

\* One pass of the batch loop: the documents it sliced, the chunk records
\* process_runbook returned for them and the calls embed_and_store made.
BatchEntry(first, batch, chunk_datas, made) ==
  [first |-> first, docs |-> batch, chunk_datas |-> chunk_datas, made |-> made]

\* for batch_start in range(0, len(runbooks), batch_size)
NextBatchStartByOne(bstart, bs) == bstart + 1
NextBatchStart(bstart, bs) == bstart + bs

\* index_runbooks is entered: the file is loaded and the loop begins.  Nothing
\* in it looks at whether another run is in progress.
IxLaunch ==
  /\ ix_pc = "idle"
  /\ \E bs \in 1..MaxBatchSize : batch_size' = bs
  /\ runbooks' = documents
  /\ batch_start' = 0
  /\ total_chunks' = 0
  /\ ix_pc' = IF Len(documents) = 0 THEN "done" ELSE "batch"
  /\ ix_start_coll' = collection
  /\ ix_redo' = indexed_current
  /\ ix_log' = <<>>
  /\ indexed_current' = (Len(documents) = 0)
  /\ UNCHANGED <<documents, collection, rb_pc, rb_runbooks, all_chunks, rb_i>>
  /\ UNCHANGED chunkVars
  /\ UNCHANGED queryVars
  /\ UNCHANGED outerVars

\* A run started by an operator who starts one run at a time.
IxStart ==
  /\ rb_pc = "idle"
  /\ IxLaunch

IxBatch ==
  /\ ix_pc = "batch"
  /\ LET batch == PySlice(runbooks, batch_start, batch_start + batch_size)
         processed == [k \in 1..Len(batch) |-> EffProcessRunbookAt(batch[k])]
         all_chunk_datas == Concat([k \in 1..Len(batch) |-> processed[k].chunk_datas])
     IN IF \E k \in 1..Len(batch) : ~processed[k].returns
        THEN /\ ix_pc' = "hung"
             /\ UNCHANGED <<collection, batch_start, total_chunks, indexed_current, ix_log>>
        ELSE \E outcome \in EmbedStoreOutcomes(all_chunk_datas) :
               /\ ix_log' = Append(ix_log, BatchEntry(batch_start, batch, all_chunk_datas,
                                     EmbedStoreCalls(all_chunk_datas, outcome)))
               /\ IF outcome = "ok"
                  THEN /\ collection' = EmbedAndStore(collection, all_chunk_datas)
                       /\ total_chunks' = total_chunks + Len(all_chunk_datas)
                       /\ batch_start' = NextBatchStart(batch_start, batch_size)
                       /\ IF batch_start' < Len(runbooks)
                          THEN /\ ix_pc' = "batch"
                               /\ UNCHANGED indexed_current
                          ELSE /\ ix_pc' = "done"
                               /\ indexed_current' = TRUE
                  ELSE IF outcome = "embed_raises"
                  THEN /\ ix_pc' = "embed_raised"
                       /\ collection' = EmbedRaised(collection, all_chunk_datas)
                       /\ UNCHANGED <<batch_start, total_chunks, indexed_current>>
                  ELSE /\ ix_pc' = "add_raised"
                       /\ UNCHANGED <<collection, batch_start, total_chunks, indexed_current>>
  /\ UNCHANGED <<documents, runbooks, batch_size, ix_start_coll, ix_redo,
                 rb_pc, rb_runbooks, all_chunks, rb_i>>
  /\ UNCHANGED chunkVars
  /\ UNCHANGED queryVars
  /\ UNCHANGED outerVars

\* index_runbooks has returned or raised; the indexer can be run again.
IxReturn ==
  /\ ix_pc \in {"done", "embed_raised", "add_raised"}
  /\ ix_pc' = "idle"
  /\ runbooks' = <<>>
  /\ batch_size' = 1
  /\ batch_start' = 0
  /\ total_chunks' = 0
  /\ ix_start_coll' = <<>>
  /\ ix_redo' = FALSE
  /\ ix_log' = <<>>
  /\ UNCHANGED <<documents, collection, indexed_current, rb_pc, rb_runbooks, all_chunks, rb_i>>
  /\ UNCHANGED chunkVars
  /\ UNCHANGED queryVars
  /\ UNCHANGED outerVars

-----------------------------------------------------------------------------
(* RunbookIndexer.index_runbooks: process and embed, clear, add *)

\* The collection when self.generate_embeddings(texts) has returned or
\* raised: the call encodes the texts and does not touch the collection,
\* which is cleared only afterwards.
GenerateEmbeddingsAfterClear(coll) == <<>>
GenerateEmbeddings(coll) == coll

RbLaunch ==
  /\ rb_pc = "idle"
  /\ rb_runbooks' = documents
  /\ rb_i' = 0
  /\ LET processed == [k \in 1..Len(documents) |-> RIProcessRunbookAt(documents[k])]
         cks == Concat([k \in 1..Len(documents) |-> processed[k].chunk_datas])
     IN IF \E k \in 1..Len(documents) : ~processed[k].returns
        THEN rb_pc' = "hung" /\ all_chunks' = <<>> /\ UNCHANGED collection
        ELSE IF Len(documents) = 0
        THEN rb_pc' = "process_failed" /\ all_chunks' = <<>> /\ UNCHANGED collection
        ELSE IF cks = <<>>
        THEN rb_pc' = "returned" /\ all_chunks' = <<>> /\ UNCHANGED collection
        ELSE /\ all_chunks' = cks
             /\ collection' = GenerateEmbeddings(collection)
             /\ \E embedded \in BOOLEAN :
                  rb_pc' = IF embedded THEN "embedded" ELSE "embed_failed"
  /\ indexed_current' = FALSE
  /\ UNCHANGED <<documents, ix_pc, runbooks, batch_size, batch_start,
                 total_chunks, ix_start_coll, ix_redo, ix_log>>
  /\ UNCHANGED chunkVars
  /\ UNCHANGED queryVars
  /\ UNCHANGED outerVars

\* A run started by an operator who starts one run at a time.
RbStart ==
  /\ ix_pc = "idle"
  /\ RbLaunch

\* try: self.collection.delete() except: pass -- the call without ids or filter
\* either empties the collection or is refused, and a refusal is swallowed.
RbClear ==
  /\ rb_pc = "embedded"
  /\ \E cleared \in BOOLEAN : collection' = IF cleared THEN <<>> ELSE collection
  /\ rb_pc' = "adding"
  /\ rb_i' = 0
  /\ UNCHANGED <<documents, ix_pc, runbooks, batch_size, batch_start, total_chunks,
                 ix_start_coll, ix_redo, ix_log, indexed_current, rb_runbooks, all_chunks>>
  /\ UNCHANGED chunkVars
  /\ UNCHANGED queryVars
  /\ UNCHANGED outerVars

RbAdd ==
  /\ rb_pc = "adding"
  /\ LET end_idx == Min(rb_i + RIAddBatch, Len(all_chunks))
         batch == PySlice(all_chunks, rb_i, end_idx)
     IN \E added \in (IF HasDuplicateIds(batch) THEN {FALSE} ELSE BOOLEAN) :
          IF added
          THEN /\ collection' = ChromaAdd(collection, batch)
               /\ rb_i' = rb_i + RIAddBatch
               /\ rb_pc' = IF rb_i' < Len(all_chunks) THEN "adding" ELSE "done"
          ELSE /\ rb_pc' = "add_failed"
               /\ UNCHANGED <<collection, rb_i>>
  /\ UNCHANGED <<documents, ix_pc, runbooks, batch_size, batch_start, total_chunks,
                 ix_start_coll, ix_redo, ix_log, indexed_current, rb_runbooks, all_chunks>>
  /\ UNCHANGED chunkVars
  /\ UNCHANGED queryVars
  /\ UNCHANGED outerVars

RbReturn ==
  /\ rb_pc \in {"done", "returned", "process_failed", "embed_failed", "add_failed"}
  /\ rb_pc' = "idle"
  /\ rb_runbooks' = <<>>
  /\ all_chunks' = <<>>
  /\ rb_i' = 0
  /\ UNCHANGED <<documents, collection, ix_pc, runbooks, batch_size, batch_start,
                 total_chunks, ix_start_coll, ix_redo, ix_log, indexed_current>>
  /\ UNCHANGED chunkVars
  /\ UNCHANGED queryVars
  /\ UNCHANGED outerVars

\* The document source rewrites devops_runbooks.json between indexing runs.
EditDocuments ==
  /\ ix_pc = "idle"
  /\ rb_pc = "idle"
  /\ documents' \in Snapshots \ {documents}
  /\ indexed_current' = FALSE
  /\ UNCHANGED <<collection, ix_pc, runbooks, batch_size, batch_start, total_chunks,
                 ix_start_coll, ix_redo, ix_log, rb_pc, rb_runbooks, all_chunks, rb_i>>
  /\ UNCHANGED chunkVars
  /\ UNCHANGED queryVars
  /\ UNCHANGED outerVars

\* The places of a session's record before any call has filled them.
NoInput ==
  [q |-> <<>>, create |-> FALSE, out |-> [raised |-> FALSE, dist |-> <<>>],
   analysis_ok |-> TRUE, llm_ok |-> TRUE, created |-> FALSE]
NothingSeen ==
  [raised |-> FALSE, answer |-> [kind |-> "none"], has_sources |-> FALSE,
   sources |-> <<>>, chunks_found |-> 0]

\* The request threads of the web server that are followed.
Requests == 1..MaxRequests

\* No web application is running and no session is recorded.
WebIdle ==
  /\ app = "simple_web_app"
  /\ rag_processor = "None"
  /\ req_pc = [t \in Requests |-> "idle"]
  /\ constructed = 0
  /\ chroma_open = "untried"
  /\ web_response = [route |-> "none"]

NoSession ==
  session = [mode |-> use_vector_search, known |-> FALSE, first_in |-> NoInput,
             first_seen |-> NothingSeen, last_in |-> NoInput, failed_between |-> FALSE]

\* The request threads of the webhook listener that are followed.
Hooks == 1..MaxHooks

\* No webhook is being handled and the file holds no runbook.
HookIdle ==
  /\ store = <<>>
  /\ hook_pc = [t \in Hooks |-> "idle"]
  /\ hook_pages = [t \in Hooks |-> <<>>]
  /\ hook_existing = [t \in Hooks |-> <<>>]

OuterIdle == WebIdle /\ NoSession /\ HookIdle

\* No indexer has run: the collection was just created.
IndexIdle ==
  /\ documents = <<>>
  /\ collection = <<>>
  /\ ix_pc = "idle"
  /\ runbooks = <<>>
  /\ batch_size = 1
  /\ batch_start = 0
  /\ total_chunks = 0
  /\ ix_start_coll = <<>>
  /\ ix_redo = FALSE
  /\ ix_log = <<>>
  /\ indexed_current = FALSE
  /\ rb_pc = "idle"
  /\ rb_runbooks = <<>>
  /\ all_chunks = <<>>
  /\ rb_i = 0

\* No chunk_text call is under test.
ChunkIdle(cs, ov) ==
  /\ text = <<>>
  /\ chunk_size = cs
  /\ overlap = ov
  /\ eff_pc = "ready"
  /\ words = <<>>
  /\ start = 0
  /\ chunks = <<>>
  /\ fed_from = <<>>
  /\ ri_pc = "ready"
  /\ ri_words = <<>>
  /\ ri_start = 0
  /\ ri_end = 0
  /\ ri_chunks = <<>>

-----------------------------------------------------------------------------
(* The query engines: SimpleRAGSystem and RAGProcessor *)

\* len(query.strip()) < 3
MinQueryLen == 3
\* self.search_chunks(query, top_k=5); def process_query(self, query, top_k=5)
TopK == 5
\* 'text': text[:500]
FallbackTextLen == 500
\* for c in chunks[:5]
ContextChunks == 5
\* for i, c in enumerate(chunks[:3], 1)
FallbackAnswerChunks == 3
\* c['text'][:300]
FallbackAnswerTextLen == 300
\* filtered_lines[:10]
SimpleAnswerLines == 10

\* The longest query enumerated, the largest top_k passed to search_chunks
\* directly, and the most documents the fallback scan is run over.
MaxQueryLen == 3
MaxTopK == 2
MaxSearchDocs == 3

\* Scores and distances are exact fractions num/den, den > 0.
Frac(n, d) == [num |-> n, den |-> d]
FracLess(a, b) == a.num * b.den < b.num * a.den
FracEq(a, b) == a.num * b.den = b.num * a.den

\* The distances the embedding space may put between a query and a record.
Distances == {Frac(1, 9), Frac(3, 7), Frac(2, 3), Frac(1, 1), Frac(7, 3)}

\* str.lower()
UpperSeq == <<"A", "B", "C", "D", "E", "F", "G", "H", "I", "J", "K", "L", "M",
              "N", "O", "P", "Q", "R", "S", "T", "U", "V", "W", "X", "Y", "Z">>
LowerSeq == <<"a", "b", "c", "d", "e", "f", "g", "h", "i", "j", "k", "l", "m",
              "n", "o", "p", "q", "r", "s", "t", "u", "v", "w", "x", "y", "z">>
LowerChar(c) ==
  IF c \in UpperLetters
  THEN LowerSeq[CHOOSE i \in 1..26 : UpperSeq[i] = c]
  ELSE c
lower(t) == [i \in 1..Len(t) |-> LowerChar(t[i])]

\* p in t, for strings
IsSubstring(p, t) ==
  \E i \in 0..(Len(t) - Len(p)) : SubSeq(t, i + 1, i + Len(p)) = p

\* collection.query(..., n_results=k): the k records nearest to the query,
\* nearest first, records at the same distance in insertion order.  dist gives
\* the distance of each record from the query.
RankOf(dist, i) ==
  Cardinality({j \in DOMAIN dist :
                 FracLess(dist[j], dist[i]) \/ (FracEq(dist[j], dist[i]) /\ j < i)})
ChromaQuery(coll, dist, k) ==
  LET at(r) == CHOOSE i \in 1..Len(coll) : RankOf(dist, i) = r - 1
  IN PySlice([r \in 1..Len(coll) |-> [record |-> coll[at(r)], distance |-> dist[at(r)]]],
             0, k)

\* 1.0 / (1.0 + result['distances'][0][i])
SimpleRelevance(d) == Frac(d.den, d.den + d.num)
\* 1 - distance
RagRelevance(d) == Frac(d.den - d.num, d.den)

\* SimpleRAGSystem._fallback_text_search
fallback_text_search(data, q, k) ==
  LET query_lower == strip(lower(q))
      hits == SelectSeq(data,
                LAMBDA rb : IsSubstring(query_lower, CollapseWhitespace(lower(rb.body))))
      found == [i \in 1..Len(hits) |->
                  [text |-> PySlice(hits[i].body, 0, FallbackTextLen),
                   runbook_id |-> hits[i].id,
                   title |-> hits[i].title,
                   url |-> hits[i].url,
                   chunk_index |-> 0,
                   relevance_score |-> Frac(1, 1)]]
  IN PySlice(found, 0, k)

\* SimpleRAGSystem.search_chunks: the vector query when the collection was
\* opened, the fallback scan when it was not or when the query raises.
search_chunks(q, k, raised, dist) ==
  IF use_vector_search /\ ~raised
  THEN LET hits == ChromaQuery(collection, dist, k)
       IN [results |->
             [i \in 1..Len(hits) |->
                [text |-> hits[i].record.text,
                 runbook_id |-> hits[i].record.runbook_id,
                 title |-> hits[i].record.runbook_title,
                 url |-> hits[i].record.runbook_url,
                 chunk_index |-> hits[i].record.chunk_index,
                 relevance_score |-> SimpleRelevance(hits[i].distance)]],
           calls |-> {"collection.query"}]
  ELSE [results |-> fallback_text_search(runbooks_data, q, k),
        calls |-> (IF use_vector_search THEN {"collection.query"} ELSE {})
                    \cup {"fallback_text_search"}]

\* The outcomes of the vector query the state allows: it raises, or it ranks
\* the records by some distances.
NoDistances == [i \in {} |-> Frac(1, 1)]
QueryOutcomes(open) ==
  IF open
  THEN {[raised |-> TRUE, dist |-> NoDistances]}
         \cup {[raised |-> FALSE, dist |-> d] : d \in [1..Len(collection) -> Distances]}
  ELSE {[raised |-> FALSE, dist |-> NoDistances]}

\* The call sites of SimpleRAGSystem.process_query whose failure is handled
\* where it happens: search_chunks wraps the collection's query in
\* try/except Exception, analyze_issue and generate_answer wrap their
\* requests the same way.
SimpleCaughtButQuery == {"analyze_issue", "generate_answer"}
SimpleCaught == {"collection.query", "analyze_issue", "generate_answer"}

\* RAGProcessor.process_query runs everything after the length guard inside
\* try/except Exception; generate_answer_openai has its own as well.
RagCaught == {"embedding_model.encode", "collection.query", "generate_answer_openai"}

\* The call SimpleRAGSystem.search_chunks(query, top_k) made directly.
SearchChunks ==
  /\ op = "none"
  /\ \E q \in SeqsUpTo({"a", "A", " ", "\t"}, MaxQueryLen), k \in 1..MaxTopK,
        out \in QueryOutcomes(use_vector_search) :
       LET r == search_chunks(q, k, out.raised, out.dist)
       IN /\ query' = q
          /\ top_k' = k
          /\ index_raised' = out.raised
          /\ IF out.raised /\ "collection.query" \notin SimpleCaught
             THEN /\ results' = <<>>
                  /\ calls' = {"collection.query"}
                  /\ escaped' = TRUE
             ELSE /\ results' = r.results
                  /\ calls' = r.calls
                  /\ escaped' = FALSE
          /\ failures' = IF out.raised THEN {"collection.query"} ELSE {}
  /\ op' = "search_chunks"
  /\ UNCHANGED <<use_vector_search, runbooks_data, answer_chunks, response>>
  /\ UNCHANGED chunkVars
  /\ UNCHANGED indexVars
  /\ UNCHANGED outerVars

\* len(query.strip()) where the mutant counts the characters that are not
\* whitespace
NonWhitespaceLen(q) == Len(SelectSeq(q, LAMBDA c : ~isspace(c)))
TrimmedLen(q) == Len(strip(q))

\* not query or len(query.strip()) < 3
ShortQueryUntrimmed(q) == q = <<>> \/ Len(q) < MinQueryLen
ShortQuery(q) == q = <<>> \/ TrimmedLen(q) < MinQueryLen

\* r.get('relevance_score', 0) > 0.6
MeaningfulThreshold == Frac(6, 10)
IsMeaningfulInclusive(r) == ~FracLess(r.relevance_score, MeaningfulThreshold)
IsMeaningful(r) == FracLess(MeaningfulThreshold, r.relevance_score)

\* SimpleRAGSystem.generate_answer: the model's text when the call succeeds,
\* the fixed texts otherwise.
\* The lines the fallback of generate_answer joins: the heading, then for each
\* of the first chunks its number and title and the head of its text.
FindingLines(cks) ==
  <<<<"R", "u", "n", "b", "o", "o", "k", " ", "f", "i", "n", "d", "i", "n", "g", "s", ":", "\n">>>>
    \o Concat([i \in 1..Len(cks) |->
                 <<str(i) \o <<".", " ", "F", "r", "o", "m", " ", "'">> \o cks[i].title \o <<"'", ":">>,
                   <<" ", " ", " ">> \o PySlice(cks[i].text, 0, FallbackAnswerTextLen)
                     \o <<".", ".", ".", "\n">>>>])

\* "\n\n".join([f"From '{c['title']}':\n{c['text']}" for c in chunks[:5]])
answer_context(cks) ==
  JoinRange(<<"\n", "\n">>,
            [i \in 1..Min(Len(cks), ContextChunks) |->
               <<"F", "r", "o", "m", " ", "'">> \o cks[i].title \o <<"'", ":", "\n">>
                 \o cks[i].text],
            1, Min(Len(cks), ContextChunks))

generate_answer_no_fallback(cks, llm_ok) ==
  IF llm_ok
  THEN [kind |-> "llm", text |-> "", chunks |-> PySlice(cks, 0, ContextChunks),
        lines |-> <<>>, context |-> answer_context(cks)]
  ELSE [kind |-> "fallback", text |-> "I don't have specific runbook information",
        chunks |-> <<>>, lines |-> <<>>, context |-> <<>>]
generate_answer(cks, llm_ok) ==
  IF llm_ok
  THEN [kind |-> "llm", text |-> "", chunks |-> PySlice(cks, 0, ContextChunks),
        lines |-> <<>>, context |-> answer_context(cks)]
  ELSE IF cks = <<>>
  THEN [kind |-> "fallback", text |-> "I don't have specific runbook information",
        chunks |-> <<>>, lines |-> <<>>, context |-> <<>>]
  ELSE [kind |-> "fallback", text |-> "Runbook findings:",
        chunks |-> PySlice(cks, 0, FallbackAnswerChunks),
        lines |-> FindingLines(PySlice(cks, 0, FallbackAnswerChunks)),
        context |-> <<>>]

\* What a call hands back and leaves in the state.
Deliver(q, r, failed) ==
  /\ query' = q
  /\ failures' = failed
  /\ index_raised' = r.raised
  /\ results' = r.results
  /\ answer_chunks' = r.answer_chunks
  /\ response' = r.response
  /\ calls' = r.calls
  /\ escaped' = FALSE

\* The call ends with an exception raised at one of the sites in failed:
\* nothing is returned.
Raise(q, failed) ==
  /\ query' = q
  /\ failures' = failed
  /\ index_raised' = ("collection.query" \in failed)
  /\ results' = <<>>
  /\ answer_chunks' = <<>>
  /\ response' = [query |-> <<>>]
  /\ calls' = failed
  /\ escaped' = TRUE

\* SimpleRAGSystem.process_query, the return under the length guard
SimpleShortResponse(q) ==
  [response |-> [answer |-> [kind |-> "canned",
                             text |-> "Please ask a more specific question.",
                             chunks |-> <<>>, lines |-> <<>>, context |-> <<>>],
                 query |-> q,
                 chunks_found |-> 0],
   results |-> <<>>, answer_chunks |-> <<>>, calls |-> {}, raised |-> FALSE]

\* SimpleRAGSystem.process_query from the analysis on: s is what search_chunks
\* returned and meaningful_results its filtering.
SimpleAnswer(q, create, s, meaningful_results, raised, analysis_ok, llm_ok, created) ==
  LET issue_analysis == IF analysis_ok THEN "analysis" ELSE "None"
  IN IF s.results = <<>> \/ Len(meaningful_results) = 0
     THEN
       [response |->
          IF create
          THEN [answer |-> generate_answer(<<>>, llm_ok),
                generated_runbook |-> IF created THEN "runbook" ELSE "message",
                query |-> q,
                chunks_found |-> Len(s.results),
                runbook_created |-> created,
                suggest_creation |-> TRUE,
                can_create_runbook |-> TRUE,
                sources |-> <<>>,
                processing_time |-> "elapsed",
                issue_analysis |-> issue_analysis,
                analysis_success |-> analysis_ok]
          ELSE [answer |-> generate_answer(<<>>, llm_ok),
                query |-> q,
                chunks_found |-> Len(s.results),
                suggest_creation |-> TRUE,
                can_create_runbook |-> TRUE,
                sources |-> <<>>,
                processing_time |-> "elapsed",
                issue_analysis |-> issue_analysis,
                analysis_success |-> analysis_ok],
        results |-> s.results,
        answer_chunks |-> <<>>,
        calls |-> s.calls \cup {"analyze_issue", "generate_answer"}
                    \cup (IF create THEN {"create_intelligent_runbook"} ELSE {}),
        raised |-> raised]
     ELSE
       [response |->
          [query |-> q,
           chunks_found |-> Len(meaningful_results),
           answer |-> generate_answer(meaningful_results, llm_ok),
           sources |-> [i \in 1..Len(meaningful_results) |->
                          [title |-> meaningful_results[i].title,
                           url |-> meaningful_results[i].url,
                           relevance |-> meaningful_results[i].relevance_score]],
           processing_time |-> "elapsed",
           suggest_creation |-> FALSE,
           can_create_runbook |-> FALSE,
           issue_analysis |-> issue_analysis,
           analysis_success |-> analysis_ok],
        results |-> s.results,
        answer_chunks |-> meaningful_results,
        calls |-> s.calls \cup {"analyze_issue", "generate_answer"},
        raised |-> raised]

\* The queries put to process_query.
Queries == SeqsUpTo({"a", " "}, MaxQueryLen)

\* What one call of process_query is given, and what the search finds for
\* it: the two arguments, what each collaborator does when it is reached,
\* search_chunks(query, top_k=5) and the results that pass the filter on the
\* score.  A query under the length guard reaches no collaborator.
SimpleCases ==
  LET searched ==
        {[q |-> q, out |-> o, s |-> search_chunks(q, TopK, o.raised, o.dist)] :
           q \in {qq \in Queries : ~ShortQuery(qq)},
           o \in QueryOutcomes(use_vector_search)}
      filtered ==
        {[q |-> x.q, out |-> x.out, s |-> x.s,
          meaningful_results |-> SelectSeq(x.s.results, IsMeaningful)] : x \in searched}
  IN {[in |-> [q |-> q, create |-> FALSE,
               out |-> [raised |-> FALSE, dist |-> NoDistances],
               analysis_ok |-> TRUE, llm_ok |-> TRUE, created |-> FALSE],
       s |-> [results |-> <<>>, calls |-> {}],
       meaningful_results |-> <<>>] :
        q \in {qq \in Queries : ShortQuery(qq)}}
     \cup
     {[in |-> [q |-> x.q, create |-> c, out |-> x.out, analysis_ok |-> a, llm_ok |-> l,
               created |-> c /\ d],
       s |-> x.s,
       meaningful_results |-> x.meaningful_results] :
        x \in filtered, c \in BOOLEAN, a \in BOOLEAN, l \in BOOLEAN, d \in BOOLEAN}

\* self.use_vector_search after search_chunks: the method reads the flag and
\* never assigns it, whether the collection's query raised or not.
ModeDroppedAfterFailure(mode, raised) == mode /\ ~raised
ModeAfterSearch(mode, raised) == mode

\* SimpleRAGSystem.process_query(query, create_if_missing): the length guard,
\* the search, the filter on the score, the answer.
SimpleCall(case) ==
  /\ op = "none"
  /\ IF ShortQuery(case.in.q)
     THEN /\ Deliver(case.in.q, SimpleShortResponse(case.in.q), {})
          /\ UNCHANGED use_vector_search
     ELSE LET in == case.in
              failed == (IF in.out.raised THEN {"collection.query"} ELSE {})
                          \cup (IF in.analysis_ok THEN {} ELSE {"analyze_issue"})
                          \cup (IF in.llm_ok THEN {} ELSE {"generate_answer"})
          IN /\ IF failed \subseteq SimpleCaught
                THEN \E r \in {SimpleAnswer(in.q, in.create, case.s,
                                             case.meaningful_results, in.out.raised,
                                             in.analysis_ok, in.llm_ok, in.created)} :
                       Deliver(in.q, r, failed)
                ELSE Raise(in.q, failed \ SimpleCaught)
             /\ use_vector_search' = ModeAfterSearch(use_vector_search, in.out.raised)
  /\ top_k' = TopK
  /\ op' = "simple_process"
  /\ UNCHANGED runbooks_data
  /\ UNCHANGED chunkVars
  /\ UNCHANGED indexVars

\* process_query called on an engine that was constructed directly.
SimpleProcess ==
  /\ op = "none"
  /\ \E case \in SimpleCases : SimpleCall(case)
  /\ UNCHANGED outerVars

\* RAGProcessor.search_relevant_chunks, given the ranking the query returned
search_relevant_chunks(dist, k) ==
  LET hits == ChromaQuery(collection, dist, k)
  IN [i \in 1..Len(hits) |->
        [content |-> hits[i].record.text,
         metadata |-> hits[i].record,
         relevance_score |-> RagRelevance(hits[i].distance),
         rank |-> i]]

\* sorted(..., key=lambda x: x['relevance'], reverse=True): stable
SortByRelevanceAsc(s) ==
  LET before(j, i) == \/ FracLess(s[j].relevance, s[i].relevance)
                      \/ (FracEq(s[i].relevance, s[j].relevance) /\ j < i)
      at(r) == CHOOSE i \in 1..Len(s) : Cardinality({j \in 1..Len(s) : before(j, i)}) = r - 1
  IN [r \in 1..Len(s) |-> s[at(r)]]
SortByRelevanceDesc(s) ==
  LET before(j, i) == \/ FracLess(s[i].relevance, s[j].relevance)
                      \/ (FracEq(s[i].relevance, s[j].relevance) /\ j < i)
      at(r) == CHOOSE i \in 1..Len(s) : Cardinality({j \in 1..Len(s) : before(j, i)}) = r - 1
  IN [r \in 1..Len(s) |-> s[at(r)]]

\* RAGProcessor.extract_source_urls
extract_source_urls(cks) ==
  LET first == SelectAt(cks, LAMBDA p : \A j \in 1..(p - 1) :
                                  cks[j].metadata.runbook_id # cks[p].metadata.runbook_id)
  IN SortByRelevanceDesc([i \in 1..Len(first) |->
                            [title |-> first[i].metadata.runbook_title,
                             url |-> first[i].metadata.runbook_url,
                             relevance |-> first[i].relevance_score]])

\* "\n".join(parts)
RECURSIVE JoinLines(_)
JoinLines(parts) ==
  IF parts = <<>> THEN <<>>
  ELSE IF Len(parts) = 1 THEN parts[1]
  ELSE parts[1] \o <<"\n">> \o JoinLines(Tail(parts))

\* str.split('\n')
SplitLines(t) ==
  CHOOSE ls \in {[k \in 1..(Len(cut) - 1) |-> SubSeq(t, cut[k] + 1, cut[k + 1] - 1)] :
                   cut \in {<<0>> \o SelectSeq([i \in 1..Len(t) |-> i],
                                               LAMBDA i : t[i] = "\n")
                                 \o <<Len(t) + 1>>}} : TRUE

\* str.startswith
StartsWith(t, p) == Len(t) >= Len(p) /\ SubSeq(t, 1, Len(p)) = p

\* RAGProcessor.format_context_for_llm: title and source once for each
\* runbook, at its first chunk, and the content of every chunk.
format_context_header_each(cks) ==
  JoinLines(Concat([i \in 1..Len(cks) |->
    <<<<"\n", "-", "-", "-", " ">> \o cks[i].metadata.runbook_title \o <<" ", "-", "-", "-">>,
      <<"S", "o", "u", "r", "c", "e", ":", " ">> \o cks[i].metadata.runbook_url,
      <<"\n">> \o cks[i].content>>]))
format_context_for_llm(cks) ==
  JoinLines(Concat([i \in 1..Len(cks) |->
    (IF \A j \in 1..(i - 1) : cks[j].metadata.runbook_id # cks[i].metadata.runbook_id
     THEN <<<<"\n", "-", "-", "-", " ">> \o cks[i].metadata.runbook_title \o <<" ", "-", "-", "-">>,
            <<"S", "o", "u", "r", "c", "e", ":", " ">> \o cks[i].metadata.runbook_url>>
     ELSE <<>>)
      \o <<<<"\n">> \o cks[i].content>>]))

\* RAGProcessor.generate_answer_simple: the lines it joins under its heading,
\* none when it finds no line to show.
generate_answer_simple(context) ==
  CHOOSE answer_lines \in
    {PySlice([k \in 1..Len(kept) |-> strip(kept[k])], 0, SimpleAnswerLines) :
       kept \in {SelectSeq(SplitLines(context),
                           LAMBDA line : ~StartsWith(line, <<"-", "-", "-">>)
                                           /\ strip(line) # <<>>)}} : TRUE

\* RAGProcessor.process_query, the return under the length guard
RagShortResponse(q) ==
  [response |-> [answer |-> [kind |-> "canned",
                             text |-> "Please provide a more specific question.",
                             chunks |-> <<>>, lines |-> <<>>, context |-> <<>>],
                 sources |-> <<>>,
                 query |-> q,
                 processing_time |-> "0",
                 chunks_found |-> 0],
   results |-> <<>>, answer_chunks |-> <<>>, calls |-> {}, raised |-> FALSE]

\* RAGProcessor.process_query, the except branch: the embedding raised, or
\* the collection's query did.
RagErrorResponse(q, embed_ok) ==
  [response |-> [answer |-> [kind |-> "error",
                             text |-> "Sorry, I encountered an error",
                             chunks |-> <<>>, lines |-> <<>>, context |-> <<>>],
                 sources |-> <<>>,
                 query |-> q,
                 processing_time |-> "elapsed",
                 chunks_found |-> 0],
   results |-> <<>>, answer_chunks |-> <<>>,
   calls |-> {"embedding_model.encode"}
               \cup (IF embed_ok THEN {"collection.query"} ELSE {}),
   raised |-> TRUE]

\* RAGProcessor.process_query after the search.  llm is "off" when use_openai
\* is False, else the outcome of the completion call.
RagAnswer(q, relevant_chunks, sources, context, llm, simple_lines) ==
  LET reached == {"embedding_model.encode", "collection.query"}
  IN IF relevant_chunks = <<>>
     THEN [response |-> [answer |-> [kind |-> "fallback",
                                     text |-> "I couldn't find any relevant information",
                                     chunks |-> <<>>, lines |-> <<>>, context |-> <<>>],
                         sources |-> <<>>,
                         query |-> q,
                         processing_time |-> "elapsed",
                         chunks_found |-> 0],
           results |-> <<>>, answer_chunks |-> <<>>, calls |-> reached, raised |-> FALSE]
     ELSE [response |-> [answer |-> [kind |-> IF llm = "ok" THEN "llm" ELSE "simple",
                                     text |-> "",
                                     chunks |-> relevant_chunks,
                                     lines |-> IF llm = "ok" THEN <<>>
                                               ELSE simple_lines,
                                     context |-> context],
                         sources |-> sources,
                         query |-> q,
                         processing_time |-> "elapsed",
                         chunks_found |-> Len(relevant_chunks),
                         chunks_used |-> relevant_chunks],
           results |-> relevant_chunks,
           answer_chunks |-> relevant_chunks,
           calls |-> reached \cup {"format_context_for_llm", "extract_source_urls"}
                       \cup (IF llm = "off" THEN {} ELSE {"generate_answer_openai"})
                       \cup (IF llm = "ok" THEN {} ELSE {"generate_answer_simple"}),
           raised |-> FALSE]

\* RAGProcessor.process_query(query, top_k) with the default top_k
RagCall ==
  /\ op = "none"
  /\ \E q \in Queries :
       IF ShortQuery(q)
       THEN Deliver(q, RagShortResponse(q), {})
       ELSE \E embed_ok \in BOOLEAN :
            \E out \in (IF embed_ok THEN QueryOutcomes(TRUE) ELSE QueryOutcomes(FALSE)) :
              IF ~embed_ok \/ out.raised
              THEN LET failed == IF embed_ok THEN {"collection.query"}
                                 ELSE {"embedding_model.encode"}
                   IN IF failed \subseteq RagCaught
                      THEN Deliver(q, RagErrorResponse(q, embed_ok), failed)
                      ELSE Raise(q, failed)
              ELSE \E relevant_chunks \in {search_relevant_chunks(out.dist, TopK)} :
                   \E sources \in {extract_source_urls(relevant_chunks)} :
                   \E context \in {format_context_for_llm(relevant_chunks)} :
                   \E simple_lines \in {generate_answer_simple(context)} :
                   \E llm \in {"off", "ok", "failed"} :
                     IF llm = "failed" /\ "generate_answer_openai" \notin RagCaught
                     THEN Raise(q, {"generate_answer_openai"})
                     ELSE \E r \in {RagAnswer(q, relevant_chunks, sources, context,
                                               llm, simple_lines)} :
                            Deliver(q, r, IF llm = "failed" THEN {"generate_answer_openai"}
                                          ELSE {})
  /\ top_k' = TopK
  /\ op' = "rag_process"
  /\ UNCHANGED <<use_vector_search, runbooks_data>>
  /\ UNCHANGED chunkVars
  /\ UNCHANGED indexVars

\* process_query called on an engine that was constructed directly.
RagProcess ==
  /\ RagCall
  /\ UNCHANGED outerVars

\* The caller has taken the result; the engines keep nothing of the call.
ReturnCall ==
  /\ op # "none"
  /\ op' = "none"
  /\ query' = <<>>
  /\ top_k' = TopK
  /\ index_raised' = FALSE
  /\ results' = <<>>
  /\ answer_chunks' = <<>>
  /\ response' = [query |-> <<>>]
  /\ calls' = {}
  /\ escaped' = FALSE
  /\ failures' = {}
  /\ UNCHANGED <<use_vector_search, runbooks_data>>
  /\ UNCHANGED chunkVars
  /\ UNCHANGED indexVars

\* The return to a caller that called the engine directly.
QueryReturn ==
  /\ ReturnCall
  /\ UNCHANGED outerVars

\* No query has been put.
NoCall ==
  /\ op = "none"
  /\ query = <<>>
  /\ top_k = TopK
  /\ index_raised = FALSE
  /\ results = <<>>
  /\ answer_chunks = <<>>
  /\ response = [query |-> <<>>]
  /\ calls = {}
  /\ escaped = FALSE
  /\ failures = {}

\* No query engine has been constructed.
QueryIdle ==
  /\ use_vector_search = FALSE
  /\ runbooks_data = <<>>
  /\ NoCall

\* No indexing run is in progress.
IndexerIdle ==
  /\ ix_pc = "idle"
  /\ runbooks = <<>>
  /\ batch_size = 1
  /\ batch_start = 0
  /\ total_chunks = 0
  /\ ix_start_coll = <<>>
  /\ ix_redo = FALSE
  /\ ix_log = <<>>
  /\ indexed_current = FALSE
  /\ rb_pc = "idle"
  /\ rb_runbooks = <<>>
  /\ all_chunks = <<>>
  /\ rb_i = 0

-----------------------------------------------------------------------------
(* A sequence of process_query calls on one SimpleRAGSystem *)

\* result.get(key, default)
Get(r, key, default) == IF key \in DOMAIN r THEN r[key] ELSE default

\* What the caller sees of a call: the exception, or the answer, the sources
\* and the count of the returned dictionary.
SeenOf(r, raised) ==
  IF raised
  THEN [raised |-> TRUE, answer |-> [kind |-> "none"], has_sources |-> FALSE,
        sources |-> <<>>, chunks_found |-> 0]
  ELSE [raised |-> FALSE, answer |-> r.answer, has_sources |-> "sources" \in DOMAIN r,
        sources |-> Get(r, "sources", <<>>), chunks_found |-> r.chunks_found]

\* The queries of a session: one under the length guard, one that is a word
\* of the documents, one that is two words.
SessionQueries == {<<"a", "a">>, <<"a", "a", "a">>, <<"a", " ", "a">>}

\* One more call of the sequence; any call made while none is remembered may
\* become the remembered one.
SessionCall ==
  /\ op = "none"
  /\ \E case \in SimpleCases, keep \in BOOLEAN :
       /\ case.in.q \in SessionQueries
       /\ SimpleCall(case)
       /\ session' =
            IF ~session.known /\ keep
            THEN [session EXCEPT !.known = TRUE,
                                 !.first_in = case.in,
                                 !.first_seen = SeenOf(response', escaped'),
                                 !.last_in = case.in]
            ELSE [session EXCEPT
                    !.last_in = case.in,
                    !.failed_between = session.known
                                         /\ (session.failed_between \/ case.in.out.raised)]
  /\ UNCHANGED webVars
  /\ UNCHANGED hookVars

\* The call of the sequence returns to its caller.
SessionReturn ==
  /\ ReturnCall
  /\ session' = [session EXCEPT !.last_in = NoInput]
  /\ UNCHANGED webVars
  /\ UNCHANGED hookVars

-----------------------------------------------------------------------------
(* The web applications: simple_web_app.py over SimpleRAGSystem,
   test/web_app.py over RAGProcessor *)

\* How a construction of the engine may end.  SimpleRAGSystem(json_path):
\* a constructor step before init_chroma raises (json.load on a damaged
\* file), or the object is built, with the file found or not and the
\* collection opened or not.  RAGProcessor(use_openai=False): the embedding
\* model fails to load, get_collection raises and the constructor re-raises,
\* or the object is built on the opened collection.
ConstructOutcomes(a) ==
  IF a = "simple_web_app"
  THEN {[built |-> FALSE, opened |-> "untried", loaded |-> FALSE]}
         \cup {[built |-> TRUE, opened |-> o, loaded |-> l] :
                 o \in {"opened", "failed"}, l \in BOOLEAN}
  ELSE {[built |-> FALSE, opened |-> "untried", loaded |-> FALSE],
        [built |-> FALSE, opened |-> "failed", loaded |-> FALSE],
        [built |-> TRUE, opened |-> "opened", loaded |-> FALSE]}

\* len(self.chunked_data) after chunk_runbooks: slices of 500 characters
ChunkSlice == 500
RECURSIVE ChunkedCount(_)
ChunkedCount(data) ==
  IF data = <<>> THEN 0
  ELSE (Len(data[1].body) + ChunkSlice - 1) \div ChunkSlice + ChunkedCount(Tail(data))

\* get_stats() of the engine behind the application
get_stats(a, data, vector) ==
  IF a = "simple_web_app"
  THEN [total_runbooks |-> Len(data),
        total_chunks |-> ChunkedCount(data),
        search_type |-> IF vector THEN "vector (chroma)" ELSE "text fallback"]
  ELSE [total_chunks |-> Len(collection), openai_enabled |-> FALSE]

\* The dictionary query() of simple_web_app.py builds from the result
ResponseData(result, user_query) ==
  [query |-> Get(result, "query", user_query),
   chunks_found |-> Get(result, "chunks_found", 0),
   answer |-> Get(result, "answer", "None"),
   generated_runbook |-> Get(result, "generated_runbook", "None"),
   runbook_created |-> Get(result, "runbook_created", FALSE),
   suggest_creation |-> Get(result, "suggest_creation", FALSE),
   can_create_runbook |-> Get(result, "can_create_runbook", FALSE),
   sources |-> Get(result, "sources", <<>>),
   processing_time |-> Get(result, "processing_time", 0),
   issue_analysis |-> Get(result, "issue_analysis", "None"),
   analysis_success |-> Get(result, "analysis_success", FALSE)]

\* index(), up to its test of the global: a thread that finds it None goes on
\* to initialize_rag(), any other renders the page.
IndexRequest(t) ==
  /\ req_pc[t] = "idle"
  /\ IF rag_processor = "None"
     THEN /\ req_pc' = [req_pc EXCEPT ![t] = "init"]
          /\ UNCHANGED web_response
     ELSE /\ web_response' = [route |-> "/", code |-> 200, template |-> "index.html",
                              body |-> get_stats(app, runbooks_data, use_vector_search)]
          /\ UNCHANGED req_pc
  /\ UNCHANGED <<app, rag_processor, constructed, chroma_open, session>>
  /\ UNCHANGED hookVars
  /\ UNCHANGED chunkVars
  /\ UNCHANGED indexVars
  /\ UNCHANGED queryVars

\* initialize_rag() and the rest of index(): the engine is constructed and
\* assigned to the global, or the constructor raises and the error page is
\* rendered with the global left as it was.
InitializeRag(t) ==
  /\ req_pc[t] = "init"
  /\ \E o \in ConstructOutcomes(app) :
       /\ IF o.built
          THEN /\ rag_processor' = IF app = "simple_web_app" THEN "SimpleRAGSystem"
                                   ELSE "RAGProcessor"
               /\ constructed' = constructed + 1
               /\ use_vector_search' = (o.opened = "opened")
               /\ runbooks_data' = IF o.loaded THEN documents ELSE <<>>
               /\ web_response' = [route |-> "/", code |-> 200, template |-> "index.html",
                                   body |-> get_stats(app, runbooks_data', use_vector_search')]
          ELSE /\ UNCHANGED <<rag_processor, constructed, use_vector_search, runbooks_data>>
               /\ web_response' = [route |-> "/", code |-> 200, template |-> "error.html",
                                   body |-> "RAG system not initialized"]
       /\ chroma_open' = IF o.built \/ (rag_processor = "None" /\ o.opened # "untried")
                         THEN o.opened
                         ELSE chroma_open
  /\ req_pc' = [req_pc EXCEPT ![t] = "idle"]
  /\ UNCHANGED <<app, session>>
  /\ UNCHANGED hookVars
  /\ UNCHANGED <<op, query, top_k, index_raised, results, answer_chunks, response, calls,
                 escaped, failures>>
  /\ UNCHANGED chunkVars
  /\ UNCHANGED indexVars

\* query() when it does not reach the engine: no engine, or nothing left of
\* the query after strip().
QueryRefused ==
  /\ \/ /\ rag_processor = "None"
        /\ web_response' = [route |-> "/query", code |-> 500,
                            body |-> "RAG system not initialized"]
     \/ /\ rag_processor # "None"
        /\ \E raw \in Queries : strip(raw) = <<>>
        /\ web_response' = [route |-> "/query", code |-> 400,
                            body |-> "Please provide a query"]
  /\ UNCHANGED <<app, rag_processor, req_pc, constructed, chroma_open, session>>
  /\ UNCHANGED hookVars
  /\ UNCHANGED chunkVars
  /\ UNCHANGED indexVars
  /\ UNCHANGED queryVars

\* query() of simple_web_app.py: the stripped query goes to process_query and
\* the result is copied field by field; an exception of process_query is not
\* caught here and becomes the server's 500.
QuerySimple ==
  /\ app = "simple_web_app"
  /\ rag_processor # "None"
  /\ op = "none"
  /\ \E case \in SimpleCases :
       /\ case.in.q # <<>>
       /\ case.in.q = strip(case.in.q)
       /\ SimpleCall(case)
       /\ web_response' = IF escaped'
                          THEN [route |-> "/query", code |-> 500,
                                body |-> "Internal Server Error"]
                          ELSE [route |-> "/query", code |-> 200,
                                body |-> ResponseData(response', case.in.q)]
  /\ UNCHANGED <<app, rag_processor, req_pc, constructed, chroma_open, session>>
  /\ UNCHANGED hookVars

\* query() of test/web_app.py: process_query(user_query, top_k=5) of the
\* engine built with use_openai=False, its result returned as it is.
QueryRag ==
  /\ app = "web_app"
  /\ rag_processor # "None"
  /\ RagCall
  /\ query' # <<>>
  /\ query' = strip(query')
  /\ "generate_answer_openai" \notin calls'
  /\ web_response' = IF escaped'
                     THEN [route |-> "/query", code |-> 500,
                           body |-> "Internal Server Error"]
                     ELSE [route |-> "/query", code |-> 200, body |-> response']
  /\ UNCHANGED <<app, rag_processor, req_pc, constructed, chroma_open, session>>
  /\ UNCHANGED hookVars

QueryRequest ==
  \/ QueryRefused
  \/ QuerySimple
  \/ QueryRag

\* stats()
StatsRequest ==
  /\ web_response' =
       IF rag_processor = "None"
       THEN [route |-> "/stats", code |-> 500, body |-> "RAG system not initialized"]
       ELSE [route |-> "/stats", code |-> 200,
             body |-> get_stats(app, runbooks_data, use_vector_search)]
  /\ UNCHANGED <<app, rag_processor, req_pc, constructed, chroma_open, session>>
  /\ UNCHANGED hookVars
  /\ UNCHANGED chunkVars
  /\ UNCHANGED indexVars
  /\ UNCHANGED queryVars

\* health()
HealthRequest ==
  /\ web_response' = [route |-> "/health", code |-> 200,
                      body |-> [status |-> "healthy",
                                rag_initialized |-> rag_processor # "None"]]
  /\ UNCHANGED <<app, rag_processor, req_pc, constructed, chroma_open, session>>
  /\ UNCHANGED hookVars
  /\ UNCHANGED chunkVars
  /\ UNCHANGED indexVars
  /\ UNCHANGED queryVars

-----------------------------------------------------------------------------
(* The chunker applied to every enumerated input *)

InitChunk ==
  /\ \E in \in ChunkInputs :
       /\ text = in[1]
       /\ chunk_size = in[2]
       /\ overlap = in[3]
  /\ eff_pc = "ready"
  /\ words = <<>>
  /\ start = 0
  /\ chunks = <<>>
  /\ fed_from = <<>>
  /\ ri_pc = "ready"
  /\ ri_words = <<>>
  /\ ri_start = 0
  /\ ri_end = 0
  /\ ri_chunks = <<>>
  /\ IndexIdle
  /\ QueryIdle
  /\ OuterIdle

NextChunk ==
  \/ EffChunkCall
  \/ EffChunkIter
  \/ EffRechunk
  \/ RIChunkCall
  \/ RIChunkIter

SpecChunk == InitChunk /\ [][NextChunk]_vars

-----------------------------------------------------------------------------
(* The efficient indexer is run again and again over a changing document store *)

InitIndex ==
  /\ ChunkIdle(IxChunkSize, IxOverlap)
  /\ documents \in Snapshots
  /\ collection = <<>>
  /\ ix_pc = "idle"
  /\ runbooks = <<>>
  /\ batch_size = 1
  /\ batch_start = 0
  /\ total_chunks = 0
  /\ ix_start_coll = <<>>
  /\ ix_redo = FALSE
  /\ ix_log = <<>>
  /\ indexed_current = FALSE
  /\ rb_pc = "idle"
  /\ rb_runbooks = <<>>
  /\ all_chunks = <<>>
  /\ rb_i = 0
  /\ QueryIdle
  /\ OuterIdle

NextIndex ==
  \/ IxStart
  \/ IxBatch
  \/ IxReturn
  \/ EditDocuments

SpecIndex == InitIndex /\ [][NextIndex]_vars

\* A run in which no collaborator fails: the embedding model and the
\* collection return from every call.
IxBatchOk ==
  /\ IxBatch
  /\ ix_pc' \in {"batch", "done"}

NextIndexRun ==
  \/ IxStart
  \/ IxBatchOk
  \/ IxReturn
  \/ EditDocuments

\* index_runbooks is one sequential loop of a running process: a pass of the
\* loop that can be made is made.
SpecIndexRun == InitIndex /\ [][NextIndexRun]_vars /\ WF_vars(IxBatchOk)

(* Both indexers write the same collection, one run at a time *)

NextRebuild ==
  \/ IxStart
  \/ IxBatch
  \/ IxReturn
  \/ EditDocuments
  \/ RbStart
  \/ RbClear
  \/ RbAdd
  \/ RbReturn

SpecRebuild == InitIndex /\ [][NextRebuild]_vars

\* The file may also hold a runbook longer than the default chunk size: the
\* 450-word document, alone or followed by another one.
LongSnapshots ==
  {<<LongDoc>>} \cup {<<LongDoc, Doc(<<"B">>, b)>> : b \in Bodies}

InitLongDocs ==
  /\ ChunkIdle(IxChunkSize, IxOverlap)
  /\ documents \in Snapshots \cup LongSnapshots
  /\ collection = <<>>
  /\ IndexerIdle
  /\ rb_i = 0
  /\ QueryIdle
  /\ OuterIdle

SpecLongDocs == InitLongDocs /\ [][NextRebuild]_vars

(* The two index_runbooks entry points started independently of each other,
   as two commands on the same ./runbook_vectordb *)

NextOverlap ==
  \/ IxLaunch
  \/ IxBatch
  \/ IxReturn
  \/ EditDocuments
  \/ RbLaunch
  \/ RbClear
  \/ RbAdd
  \/ RbReturn

SpecOverlap == InitIndex /\ [][NextOverlap]_vars

-----------------------------------------------------------------------------
(* search_chunks over a loaded file and an opened or unopened collection *)

\* Bodies for the scan: mixed case, a tab between words, a run of spaces.
SearchBodies == {<<"a", "A">>, <<"a", "\t", "a">>, <<"A", " ", " ", "a">>}
SearchIds == <<<<"A">>, <<"B">>, <<"C">>, <<"D">>>>
SearchSnapshots ==
  UNION {{[i \in 1..n |-> Doc(SearchIds[i], b[i])] : b \in [1..n -> SearchBodies]} :
           n \in 0..Min(MaxSearchDocs, Len(SearchIds))}

\* The collection as the efficient indexer leaves it after indexing ds.
IndexOf(ds) ==
  EmbedAndStore(<<>>, Concat([i \in 1..Len(ds) |-> EffProcessed[ds[i]].chunk_datas]))

InitSearch ==
  /\ ChunkIdle(IxChunkSize, IxOverlap)
  /\ IndexerIdle
  /\ documents \in SearchSnapshots
  /\ collection \in {<<>>, IndexOf(<<Doc(<<"A">>, OneChunkBody)>>)}
  /\ use_vector_search \in BOOLEAN
  /\ runbooks_data = documents
  /\ NoCall
  /\ OuterIdle

NextSearch ==
  \/ SearchChunks
  \/ QueryReturn

SpecSearch == InitSearch /\ [][NextSearch]_vars

-----------------------------------------------------------------------------
(* process_query of both engines *)

QuerySnapshots ==
  {<<>>,
   <<Doc(<<"A">>, <<"a", " ", " ", "a">>)>>,
   <<Doc(<<"A">>, <<"a", "a", "a">>), Doc(<<"B">>, <<"a", "a", "a", "a">>)>>}

QueryCollections ==
  {<<>>,
   IndexOf(<<Doc(<<"A">>, OneChunkBody)>>),
   IndexOf(<<Doc(<<"A">>, TwoChunkBody), Doc(<<"B">>, TwoChunkBody)>>)}

InitQuery ==
  /\ ChunkIdle(IxChunkSize, IxOverlap)
  /\ IndexerIdle
  /\ documents \in QuerySnapshots
  /\ collection \in QueryCollections
  /\ use_vector_search \in BOOLEAN
  /\ runbooks_data = documents
  /\ NoCall
  /\ OuterIdle

NextQuery ==
  \/ SimpleProcess
  \/ RagProcess
  \/ QueryReturn

SpecQuery == InitQuery /\ [][NextQuery]_vars

-----------------------------------------------------------------------------
(* The webhook listener: confluence_webhook and the merge of specific.py *)

\* A page as fetch_child_pages builds it: its id and what else it carries.
Page(id, version) == [id |-> id, title |-> <<"v">> \o str(version)]

\* The pages the document source may return: two pages, one of them in two
\* versions.
Pages == {Page(<<"1">>, 1), Page(<<"1">>, 2), Page(<<"2">>, 1)}

\* What fetch_child_pages may return: the pages of every response, appended
\* as they come.
FetchedLists == SeqsUpTo(Pages, MaxFetched)

\* existing_ids = {rb['id'] for rb in existing_data['runbooks']}
\* new_unique_pages = [p for p in new_pages if p['id'] not in existing_ids]
new_unique_pages(existing_runbooks, new_pages) ==
  SelectSeq(new_pages,
            LAMBDA p : p.id \notin {existing_runbooks[i].id :
                                      i \in 1..Len(existing_runbooks)})

\* confluence_webhook up to the return of fetch_child_pages: an event other
\* than page_created and page_updated is answered without a fetch.
WebhookFetch(t) ==
  /\ hook_pc[t] = "idle"
  /\ \E event_type \in {"page_created", "page_updated", "other"} :
       IF event_type \in {"page_created", "page_updated"}
       THEN \E fetched \in FetchedLists :
              /\ hook_pages' = [hook_pages EXCEPT ![t] = fetched]
              /\ hook_pc' = [hook_pc EXCEPT ![t] = "fetched"]
       ELSE UNCHANGED <<hook_pc, hook_pages>>
  /\ UNCHANGED <<store, hook_existing>>
  /\ UNCHANGED <<webVars, session>>
  /\ UNCHANGED chunkVars
  /\ UNCHANGED indexVars
  /\ UNCHANGED queryVars

\* existing = specific.load_existing_data(): the file as it is now, or an
\* empty list of runbooks when there is no file.
WebhookLoad(t) ==
  /\ hook_pc[t] = "fetched"
  /\ hook_existing' = [hook_existing EXCEPT ![t] = store]
  /\ hook_pc' = [hook_pc EXCEPT ![t] = "loaded"]
  /\ UNCHANGED <<store, hook_pages>>
  /\ UNCHANGED <<webVars, session>>
  /\ UNCHANGED chunkVars
  /\ UNCHANGED indexVars
  /\ UNCHANGED queryVars

\* specific.save_combined_data(existing, pages) and the response: nothing is
\* written when no fetched page is new, else the loaded list extended by
\* the new pages replaces the file.
WebhookSave(t) ==
  /\ hook_pc[t] = "loaded"
  /\ \E added \in {new_unique_pages(hook_existing[t], hook_pages[t])} :
       store' = IF added = <<>> THEN store ELSE hook_existing[t] \o added
  /\ hook_pc' = [hook_pc EXCEPT ![t] = "idle"]
  /\ hook_pages' = [hook_pages EXCEPT ![t] = <<>>]
  /\ hook_existing' = [hook_existing EXCEPT ![t] = <<>>]
  /\ UNCHANGED <<webVars, session>>
  /\ UNCHANGED chunkVars
  /\ UNCHANGED indexVars
  /\ UNCHANGED queryVars

-----------------------------------------------------------------------------
(* Webhook requests served on two threads *)

\* The file before the listener starts: absent or empty, or holding runbooks
\* with pairwise distinct ids.
InitialStores ==
  {st \in SeqsUpTo(Pages, MaxFetched) :
     \A i, j \in 1..Len(st) : i # j => st[i].id # st[j].id}

InitWebhook ==
  /\ ChunkIdle(IxChunkSize, IxOverlap)
  /\ IndexIdle
  /\ QueryIdle
  /\ WebIdle
  /\ NoSession
  /\ store \in InitialStores
  /\ hook_pc = [t \in Hooks |-> "idle"]
  /\ hook_pages = [t \in Hooks |-> <<>>]
  /\ hook_existing = [t \in Hooks |-> <<>>]

NextWebhook ==
  \/ \E t \in Hooks : WebhookFetch(t)
  \/ \E t \in Hooks : WebhookLoad(t)
  \/ \E t \in Hooks : WebhookSave(t)

SpecWebhook == InitWebhook /\ [][NextWebhook]_vars

-----------------------------------------------------------------------------
(* A web application serving requests on two threads *)

InitWeb ==
  /\ ChunkIdle(IxChunkSize, IxOverlap)
  /\ IndexerIdle
  /\ documents \in {<<>>, <<Doc(<<"A">>, OneChunkBody)>>}
  /\ collection \in {<<>>, IndexOf(<<Doc(<<"A">>, OneChunkBody)>>)}
  /\ use_vector_search = FALSE
  /\ runbooks_data = <<>>
  /\ NoCall
  /\ app \in {"simple_web_app", "web_app"}
  /\ rag_processor = "None"
  /\ req_pc = [t \in Requests |-> "idle"]
  /\ constructed = 0
  /\ chroma_open = "untried"
  /\ web_response = [route |-> "none"]
  /\ NoSession
  /\ HookIdle

NextWeb ==
  \/ \E t \in Requests : IndexRequest(t)
  \/ \E t \in Requests : InitializeRag(t)
  \/ QueryRequest
  \/ QueryReturn
  \/ StatsRequest
  \/ HealthRequest

SpecWeb == InitWeb /\ [][NextWeb]_vars

-----------------------------------------------------------------------------
(* One SimpleRAGSystem answering a sequence of queries over fixed documents
   and a fixed collection *)

InitSession ==
  /\ ChunkIdle(IxChunkSize, IxOverlap)
  /\ IndexerIdle
  /\ documents \in QuerySnapshots
  /\ collection \in {<<>>, IndexOf(<<Doc(<<"A">>, OneChunkBody)>>)}
  /\ use_vector_search \in BOOLEAN
  /\ runbooks_data = documents
  /\ NoCall
  /\ OuterIdle

NextSession ==
  \/ SessionCall
  \/ SessionReturn

SpecSession == InitSession /\ [][NextSession]_vars


-----------------------------------------------------------------------------
(* Claims about the chunker *)

ValidConfig == 0 <= overlap /\ overlap < chunk_size

FirstN(s, n) == SubSeq(s, 1, n)
LastN(s, n) == SubSeq(s, Len(s) - n + 1, Len(s))

\* C1: for a text of n > chunk_size words and 0 <= overlap < chunk_size,
\* EfficientRunbookIndexer.chunk_text returns chunks where chunk k is
\* words[k*(chunk_size-overlap) : min(k*(chunk_size-overlap)+chunk_size, n)]
\* joined by single spaces, only the last chunk ends at word n, the last
\* `overlap` words of each chunk are the first `overlap` words of the next,
\* every word is covered, and the 450-word text with chunk size 400 and
\* overlap 50 gives exactly the two chunks over words [0,400) and [350,450).
\* While the loop runs under such a configuration it is never cut short by
\* the bound on followed chunks.
C1_ChunkWindows ==
  (ValidConfig /\ Len(split(text)) > chunk_size) =>
    /\ eff_pc = "loop" => Len(chunks) < Len(words)
    /\ eff_pc = "done" =>
         LET n == Len(words)
             step == chunk_size - overlap
             m == Len(chunks)
             lo(k) == k * step
             hi(k) == Min(k * step + chunk_size, n)
         IN /\ words = split(text)
            /\ m >= 1
            /\ \A k \in 0..(m - 1) : chunks[k + 1] = join(SubSeq(words, lo(k) + 1, hi(k)))
            /\ hi(m - 1) = n
            /\ \A k \in 0..(m - 2) : hi(k) < n
            /\ \A k \in 1..(m - 1) :
                 LastN(split(chunks[k]), overlap) = FirstN(split(chunks[k + 1]), overlap)
            /\ \A i \in 1..n : \E k \in 0..(m - 1) : lo(k) < i /\ i <= hi(k)
            /\ (n = 450 /\ chunk_size = 400 /\ overlap = 50) =>
                 chunks = << join(SubSeq(words, 1, 400)), join(SubSeq(words, 351, 450)) >>

\* The 450-word document has been chunked with the default configuration.
C1_Witness ==
  /\ eff_pc = "done"
  /\ text = ScenarioText
  /\ chunk_size = DefaultChunkSize /\ overlap = DefaultOverlap
  /\ Len(chunks) = 2

\* C2: RunbookIndexer.chunk_text terminates: under 0 <= overlap < chunk_size,
\* once a window's end has reached the end of the word sequence the final
\* window has been emitted and the loop has stopped.
C2_FinalWindowOnce ==
  (ValidConfig /\ ri_pc = "loop" /\ ri_chunks # <<>>) => ri_end < Len(ri_words)

\* C3: for a text of at most chunk_size words EfficientRunbookIndexer.chunk_text
\* returns exactly one chunk, the text unchanged; and when that single chunk
\* is chunked again the result is the same one-element list.
C3_SingleChunkIdempotent ==
  /\ (eff_pc = "done" /\ Len(split(text)) <= chunk_size) => chunks = <<text>>
  /\ (eff_pc = "done" /\ Len(fed_from) = 1) => chunks = fed_from

\* A single chunk that is not in joined form (it keeps a run of two spaces)
\* has been chunked again.
C3_Witness ==
  /\ eff_pc = "done"
  /\ Len(fed_from) = 1
  /\ text # join(split(text))
  /\ Len(split(text)) >= 2
  /\ chunks = <<text>>

-----------------------------------------------------------------------------
(* Claims about the indexing pipelines *)

\* The (id, text) pairs a collection holds for one runbook.
RecordsOf(coll, rid) ==
  {<<coll[i].id, coll[i].text>> : i \in {j \in 1..Len(coll) : coll[j].runbook_id = rid}}

\* The (id, text) pairs of a list of chunk_datas.
PairsOf(chunk_datas) ==
  {<<chunk_datas[i].id, chunk_datas[i].text>> : i \in 1..Len(chunk_datas)}

\* C4: when EfficientRunbookIndexer.index_runbooks completes a second run over
\* the same unchanged documents, the collection holds the same number of
\* records and the same set of ids as after the first run, none of them twice.
C4_ReindexIdempotent ==
  (ix_pc = "done" /\ ix_redo) =>
    /\ Len(collection) = Len(ix_start_coll)
    /\ CollIds(collection) = CollIds(ix_start_coll)
    /\ ~HasDuplicateIds(collection)

\* A second run over two documents, three chunks in all, has completed.
C4_Witness ==
  /\ ix_pc = "done"
  /\ ix_redo
  /\ Len(runbooks) = 2
  /\ total_chunks = 3
  /\ Len(collection) >= 3

\* C5: after EfficientRunbookIndexer.index_runbooks has completed, the records
\* the collection holds for each document of the run are exactly the chunks of
\* that document's present content: every id {document_id}_{i} holds the new
\* chunk text and no record of an earlier, longer version is left.
C5_ReindexSupersedes ==
  ix_pc = "done" =>
    \A k \in 1..Len(runbooks) :
      RecordsOf(collection, runbooks[k].id) = PairsOf(EffProcessRunbookAt(runbooks[k]).chunk_datas)

\* C6: after RunbookIndexer.index_runbooks has completed, the ids in the
\* collection are exactly the chunk ids derived from the documents it loaded.
C6_RebuildNoStale ==
  rb_pc \in {"done", "returned"} =>
    CollIds(collection) =
      UNION { {cd[1] : cd \in PairsOf(RIProcessRunbookAt(rb_runbooks[k]).chunk_datas)}
              : k \in 1..Len(rb_runbooks) }

-----------------------------------------------------------------------------
(* Claims about the query engines *)

\* The documents of the loaded file whose body contains the query string,
\* letter case ignored.
ContainingDocs ==
  {i \in 1..Len(runbooks_data) : IsSubstring(lower(query), lower(runbooks_data[i].body))}

\* C7: when the vector index is unavailable (the collection was not opened, or
\* its query call raises), search_chunks answers from a case-insensitive
\* substring scan of the raw documents: at most top_k results come back, each
\* with relevance score 1.0, and, provided no more than top_k documents
\* contain the query string, every document containing it is among them.
C7_FallbackReturnsMatches ==
  (op = "search_chunks" /\ (~use_vector_search \/ index_raised)) =>
    /\ Len(results) <= top_k
    /\ \A j \in 1..Len(results) :
         results[j].relevance_score.num = results[j].relevance_score.den
    /\ Cardinality(ContainingDocs) <= top_k =>
         \A i \in ContainingDocs :
           \E j \in 1..Len(results) : results[j].runbook_id = runbooks_data[i].id

\* The retrieved results whose score is strictly above 0.6 = 6/10.
Above06 ==
  {i \in 1..Len(results) :
     10 * results[i].relevance_score.num > 6 * results[i].relevance_score.den}

\* The results above 0.6, in the order retrieved.
ResultsAbove06 ==
  [k \in 1..Cardinality(Above06) |->
     results[CHOOSE i \in Above06 : Cardinality({j \in Above06 : j < i}) = k - 1]]

\* The scores of the results are ns[1]/d, ns[2]/d, ...
ScoresAre(ns, d) ==
  /\ Len(results) = Len(ns)
  /\ \A i \in 1..Len(ns) :
       results[i].relevance_score.num * d = ns[i] * results[i].relevance_score.den

NoCoverageReported ==
  /\ response.suggest_creation
  /\ response.sources = <<>>
  /\ answer_chunks = <<>>
  /\ response.answer.chunks = <<>>

\* C8: for a query that is not rejected as too short, SimpleRAGSystem's
\* process_query uses only the results scoring strictly above 0.6: it reports
\* no coverage (suggest_creation true, no sources, no retrieved chunk handed
\* to answer generation) exactly when no result scores above 0.6; otherwise
\* suggest_creation is false and the sources are exactly the results above
\* 0.6, in order.  Scores 0.9, 0.7, 0.5, 0.3 leave 2; a score of exactly 0.6
\* does not pass.
C8_MeaningfulThreshold ==
  (op = "simple_process" /\ Len(strip(query)) >= 3) =>
    /\ (Above06 = {}) <=> NoCoverageReported
    /\ Above06 # {} =>
         /\ ~response.suggest_creation
         /\ answer_chunks = ResultsAbove06
         /\ response.chunks_found = Cardinality(Above06)
         /\ response.sources =
              [k \in 1..Cardinality(Above06) |->
                 [title |-> ResultsAbove06[k].title,
                  url |-> ResultsAbove06[k].url,
                  relevance |-> ResultsAbove06[k].relevance_score]]
    /\ ScoresAre(<<9, 7, 5, 3>>, 10) =>
         response.chunks_found = 2 /\ Len(response.sources) = 2
    /\ (results # <<>> /\ ScoresAre([j \in 1..Len(results) |-> 6], 10)) =>
         NoCoverageReported

C8_Witness ==
  /\ op = "simple_process"
  /\ ~index_raised
  /\ ScoresAre(<<9, 7, 5, 3>>, 10)
  /\ response.chunks_found = 2
  /\ ~response.suggest_creation

\* The call was answered by the length guard alone.
Rejected ==
  /\ response.answer.kind = "canned"
  /\ response.chunks_found = 0
  /\ calls = {}

\* C9: a query that is empty or whose length after trimming is below 3 gets
\* the canned short-query response with chunks_found 0 from both
\* SimpleRAGSystem.process_query and RAGProcessor.process_query, and neither
\* the vector index, the embedding model, the fallback scan, the analysis nor
\* the answer generation is reached.
C9_ShortQueryCanned ==
  (op \in {"simple_process", "rag_process"} /\ Len(strip(query)) < 3) => Rejected

C9_Witness ==
  /\ op = "simple_process"
  /\ use_vector_search
  /\ collection # <<>>
  /\ query = <<" ", "a", " ">>
  /\ Rejected

\* The characters of the query that are not whitespace.
Inked == {i \in 1..Len(query) : query[i] \notin Whitespace}

\* C10 as claimed: every query with fewer than 3 non-whitespace characters is
\* rejected with the canned response and no index access, "a b" included.
C10_FewNonWhitespaceRejected ==
  (op \in {"simple_process", "rag_process"} /\ Cardinality(Inked) < 3) => Rejected

\* C10 as amended: a query is rejected with the canned response and no index
\* access exactly when its length after trimming leading and trailing
\* whitespace is below 3; whitespace inside the query counts, so a query of
\* two letters around a space is processed.
C10_TrimmedLengthDecides ==
  op \in {"simple_process", "rag_process"} =>
    /\ Rejected <=> Len(strip(query)) < 3
    /\ (Cardinality(Inked) < 3 /\ Len(strip(query)) >= 3) =>
         response.answer.kind # "canned" /\ response.query = query

C10_Witness ==
  /\ op = "rag_process"
  /\ query = <<"a", " ", "a">>
  /\ ~Rejected
  /\ "collection.query" \in calls

\* C11: process_query of both engines returns instead of raising, whatever the
\* query, the index contents and the failures of the index query, the
\* embedding, the analysis call and the answer generation: the response
\* carries an answer.  When the index is empty and answers the query, no
\* result is retrieved and the answer is a no-coverage answer.
C11_NoExceptionEscapes ==
  op \in {"simple_process", "rag_process"} =>
    /\ ~escaped
    /\ "answer" \in DOMAIN response
    /\ response.answer.kind \in {"canned", "llm", "fallback", "simple", "error"}
    /\ (collection = <<>> /\ "collection.query" \in calls /\ ~index_raised) =>
         /\ results = <<>>
         /\ response.chunks_found = 0
         /\ response.sources = <<>>
         /\ response.answer.chunks = <<>>
         /\ response.answer.kind \in {"llm", "fallback"}
         /\ op = "simple_process" => response.suggest_creation

\* The index query, the analysis and the answer generation all failed during
\* one call, and the call returned.
C11_Witness ==
  /\ op = "simple_process"
  /\ index_raised
  /\ "analyze_issue" \in calls
  /\ ~response.analysis_success
  /\ response.answer.kind = "fallback"
  /\ ~escaped

\* C12: every response process_query returns, on the short-query, the
\* no-coverage, the coverage and the error path of both engines, has the four
\* fields answer, sources, chunks_found and processing_time.
C12_ResponseFields ==
  (op \in {"simple_process", "rag_process"} /\ ~escaped) =>
    {"answer", "sources", "chunks_found", "processing_time"} \subseteq DOMAIN response

\* C13: an indexer configured with overlap >= chunk_size is rejected when it
\* is constructed: such a configuration never reaches chunk_text.
C13_InvalidConfigRejected ==
  overlap >= chunk_size => (eff_pc = "ready" /\ chunks = <<>>)

\* A line "Source: <url>" of the context.
C14_IsSourceLine(line) == StartsWith(line, <<"S", "o", "u", "r", "c", "e", ":", " ">>)

C14_WitnessRag ==
  /\ op = "rag_process"
  /\ "generate_answer_openai" \in failures
  /\ Len(results) = 4
  /\ Len(response.answer.lines) = 6

\* The collection after index_runbooks has stored the first n runbooks of its
\* list in batches of bs, starting from coll.
RECURSIVE StoredAfter(_, _, _, _)
StoredAfter(coll, rbs, bs, n) ==
  IF n <= 0 THEN coll
  ELSE LET first == Max(0, n - bs)
           batch == [k \in 1..(n - first) |-> EffProcessRunbookAt(rbs[first + k])]
       IN EmbedAndStore(StoredAfter(coll, rbs, bs, first),
                        Concat([k \in 1..Len(batch) |-> batch[k].chunk_datas]))

\* C15: when the embedding call of batch k has failed, the collection holds
\* what the run found at its start and the records of batches 1..k-1, and
\* nothing else: no record of batch k was written.
C15_FailedBatchNotWritten ==
  ix_pc = "embed_raised" =>
    collection = StoredAfter(ix_start_coll, runbooks, batch_size, batch_start)

C15_Witness ==
  /\ ix_pc = "embed_raised"
  /\ batch_start > 0
  /\ collection # ix_start_coll
  /\ EffProcessRunbookAt(runbooks[batch_start + 1]).chunk_datas # <<>>

\* C16: when index_runbooks has ended, every runbook outside a batch whose
\* embedding failed has its chunks in the collection.
C16_LaterBatchesIndexed ==
  ix_pc \in {"done", "embed_raised"} =>
    \A i \in 1..Len(runbooks) :
      (ix_pc = "embed_raised" => (i <= batch_start \/ i > batch_start + batch_size)) =>
        \A k \in 1..Len(EffProcessRunbookAt(runbooks[i]).chunk_datas) :
          EffProcessRunbookAt(runbooks[i]).chunk_datas[k].id \in CollIds(collection)
\* C17: at most one indexing run is inside its write phase at any time: while
\* one index_runbooks is between its batches, no other is clearing or adding.
C17_OneRunActive ==
  ~(ix_pc = "batch" /\ rb_pc \in {"embedded", "adding"})

\* C18: the process constructs its engine, the holder of the vector-index
\* handle, at most once, whatever requests arrive and however they interleave.
C18_ConstructedOnce == constructed <= 1

\* C19: when the collection could not be opened at initialization, /health
\* does not answer healthy with rag_initialized true and /query does not
\* answer 200.
C19_HealthReflectsIndex ==
  chroma_open = "failed" =>
    /\ web_response.route = "/health" =>
         ~(web_response.body.status = "healthy" /\ web_response.body.rag_initialized)
    /\ web_response.route = "/query" => web_response.code # 200

\* C20: SimpleRAGSystem keeps the mode it was constructed with, and a call
\* of process_query with the same query, flag and collaborator responses as
\* an earlier one gives the caller the same answer, sources and chunks_found,
\* whatever calls were made in between.
C20_NoSessionState ==
  /\ use_vector_search = session.mode
  /\ (op = "simple_process" /\ session.known /\ session.last_in = session.first_in) =>
       SeenOf(response, escaped) = session.first_seen

C20_Witness ==
  /\ op = "simple_process"
  /\ session.known
  /\ session.last_in = session.first_in
  /\ ~session.last_in.out.raised
  /\ session.failed_between
  /\ use_vector_search
  /\ response.chunks_found > 0
  /\ response.sources # <<>>

-----------------------------------------------------------------------------
(* C21: the batch pipeline of EfficientRunbookIndexer.index_runbooks *)

\* The documents of the logged batches, in the order the batches took them.
RECURSIVE C21_Taken(_)
C21_Taken(log) == IF log = <<>> THEN <<>> ELSE log[1].docs \o C21_Taken(Tail(log))

\* The number of chunk records the logged batches handed to collection.add.
RECURSIVE C21_Handed(_)
C21_Handed(log) ==
  IF log = <<>> THEN 0
  ELSE C21_Handed(Tail(log))
       + (IF Len(log[1].made) = 2 THEN log[1].made[2].n ELSE 0)

\* The chunk records of the documents of one batch.
C21_ChunksOf(docs) ==
  Concat([k \in 1..Len(docs) |-> EffProcessRunbookAt(docs[k]).chunk_datas])

C21_RunShape ==
  ix_pc \in {"batch", "done"} =>
    /\ C21_Taken(ix_log)
         = SubSeq(runbooks, 1, Min(Len(runbooks), Len(ix_log) * batch_size))
    /\ \A k \in 1..Len(ix_log) :
         LET n == Len(C21_ChunksOf(ix_log[k].docs))
         IN /\ ix_log[k].first = (k - 1) * batch_size
            /\ Len(ix_log[k].docs) = Min(batch_size, Len(runbooks) - ix_log[k].first)
            /\ ix_log[k].made =
                 IF n = 0 THEN <<>>
                 ELSE <<[call |-> "encode", n |-> n], [call |-> "add", n |-> n]>>
            /\ \A j \in 1..n : C21_ChunksOf(ix_log[k].docs)[j].id \in CollIds(collection)
    /\ total_chunks = C21_Handed(ix_log)
    /\ batch_start = Len(ix_log) * batch_size
    /\ ix_pc = "done" =>
         Len(ix_log) = (Len(runbooks) + batch_size - 1) \div batch_size

\* C21: with no collaborator failure and overlap < chunk_size, a run of
\* index_runbooks takes the documents in input order in consecutive batches
\* of batch_size, every document in exactly one batch; a batch with chunks
\* is embedded and then stored before the next batch is taken and a batch
\* without chunks makes no call; total_chunks counts the records handed to
\* the index; and the run ends after ceil(N / batch_size) batches.
C21_BatchPipeline ==
  /\ []C21_RunShape
  /\ (ix_pc = "batch") ~> (ix_pc = "done")

C21_Witness ==
  /\ ix_pc = "done"
  /\ Len(ix_log) = 2
  /\ ix_log[1].made = <<>>
  /\ Len(ix_log[2].made) = 2
  /\ total_chunks > 0

-----------------------------------------------------------------------------
(* C22: the records of process_runbook *)

\* The records recs, returned by process_runbook for the documents docs under
\* chunk size cs, are numbered as the claim says.
C22_Numbered(docs, recs, cs) ==
  /\ \A i \in 1..Len(recs) : \E k \in 1..Len(docs) : recs[i].runbook_id = docs[k].id
  /\ \A k \in 1..Len(docs) :
       LET mine == SelectSeq(recs, LAMBDA r : r.runbook_id = docs[k].id)
       IN \A i \in 1..Len(mine) :
            /\ mine[i].id = docs[k].id \o <<"_">> \o str(i - 1)
            /\ mine[i].chunk_index = i - 1
            /\ mine[i].total_chunks = Len(mine)
            /\ mine[i].word_count = Len(split(mine[i].text))
            /\ mine[i].word_count <= cs
  /\ \A i, j \in 1..Len(recs) :
       recs[i].runbook_id # recs[j].runbook_id => recs[i].id # recs[j].id

\* C22: the records process_runbook returns for a document d that yields n
\* chunks have the ids d_0 .. d_(n-1) with chunk_index 0 .. n-1 in order,
\* total_chunks = n, and word_count equal to the words of their text and at
\* most chunk_size; records of documents with distinct ids have distinct
\* ids.  Both indexers.
C22_ChunkRecords ==
  /\ \A k \in 1..Len(ix_log) :
       C22_Numbered(ix_log[k].docs, ix_log[k].chunk_datas, chunk_size)
  /\ C22_Numbered(rb_runbooks, all_chunks, DefaultChunkSize)

C22_Witness ==
  /\ Len(ix_log) = 1
  /\ Len(ix_log[1].docs) = 2
  /\ Len(ix_log[1].chunk_datas) = 3
  /\ ix_log[1].chunk_datas[1].runbook_id = ix_log[1].docs[1].id
  /\ ix_log[1].chunk_datas[1].total_chunks = 2

C22_WitnessRebuild ==
  /\ rb_pc = "embedded"
  /\ Len(rb_runbooks) = 2
  /\ Len(all_chunks) = 2

-----------------------------------------------------------------------------
(* C23: documents that are too short to index *)

\* len(cleaned) of every document a file may hold.
C23_CleanedLen == [d \in Docs \cup {LongDoc} |-> Len(clean_text(d.body))]

\* Of the documents docs that process_runbook was called with, those with
\* fewer than 50 cleaned characters have no record among recs and those with
\* at least 50 have one.
C23_Contributes(docs, recs) ==
  \A k \in 1..Len(docs) :
    (C23_CleanedLen[docs[k]] >= MinCleanedLen)
      <=> (\E i \in 1..Len(recs) : recs[i].runbook_id = docs[k].id)

\* C23: a document whose cleaned body has fewer than 50 characters yields no
\* chunk and no record and the run goes on to the next document without an
\* error; a document with at least 50 cleaned characters yields at least
\* one chunk.  Both indexers.
C23_ShortSkippedOthersChunked ==
  /\ \A k \in 1..Len(ix_log) : C23_Contributes(ix_log[k].docs, ix_log[k].chunk_datas)
  /\ rb_pc # "idle" => C23_Contributes(rb_runbooks, all_chunks)

\* The part of C23 that concerns EfficientRunbookIndexer alone.
C23_EfficientPart ==
  /\ \A k \in 1..Len(ix_log) : C23_Contributes(ix_log[k].docs, ix_log[k].chunk_datas)
  /\ ix_pc # "hung"

\* The part of C23 that concerns documents of at most 400 words in RunbookIndexer.
C23_RebuildPart ==
  (rb_pc # "idle" /\ \A k \in 1..Len(rb_runbooks) : rb_runbooks[k] \in Docs)
    => (C23_Contributes(rb_runbooks, all_chunks) /\ rb_pc # "hung")

-----------------------------------------------------------------------------
(* C24, C25: the context RAGProcessor hands to the answer synthesizer *)

\* RAGProcessor.process_query returned an answer built from retrieved chunks.
C24_RagAnswered ==
  /\ op = "rag_process"
  /\ ~escaped
  /\ response.answer.kind \in {"llm", "simple"}

C24_IsHeader(line) == StartsWith(line, <<"-", "-", "-", " ">>)
C24_IsSource(line) == StartsWith(line, <<"S", "o", "u", "r", "c", "e", ":", " ">>)
C24_HeaderOf(c) == <<"-", "-", "-", " ">> \o c.metadata.runbook_title \o <<" ", "-", "-", "-">>
C24_SourceOf(c) == <<"S", "o", "u", "r", "c", "e", ":", " ">> \o c.metadata.runbook_url

\* The non-empty lines of a context.
C24_Lines(context) == SelectSeq(SplitLines(context), LAMBDA line : line # <<>>)

\* The places of the chunk bodies among the lines.
C24_BodyAt(lines) ==
  SelectSeq([p \in 1..Len(lines) |-> p],
            LAMBDA p : ~C24_IsHeader(lines[p]) /\ ~C24_IsSource(lines[p]))

C24_First(cks, i) ==
  \A j \in 1..(i - 1) : cks[j].metadata.runbook_id # cks[i].metadata.runbook_id

\* C24: the context holds the title line and the source line of every
\* retrieved document exactly once, directly above the body of its first
\* retrieved chunk, and the body of every retrieved chunk exactly once, in
\* rank order.
C24_HeaderOncePerDocument ==
  C24_RagAnswered =>
    \A lines \in {C24_Lines(response.answer.context)} :
    \A at \in {C24_BodyAt(lines)} :
      /\ Len(at) = Len(answer_chunks)
      /\ \A i \in 1..Len(at) :
           /\ lines[at[i]] = answer_chunks[i].content
           /\ IF C24_First(answer_chunks, i)
              THEN /\ at[i] >= 3
                   /\ lines[at[i] - 2] = C24_HeaderOf(answer_chunks[i])
                   /\ lines[at[i] - 1] = C24_SourceOf(answer_chunks[i])
              ELSE at[i] - 1 = at[i - 1]
      /\ Len(lines) = Len(at)
           + 2 * Cardinality({answer_chunks[i].metadata.runbook_id : i \in 1..Len(at)})

C24_Witness ==
  /\ C24_RagAnswered
  /\ Len(answer_chunks) = 4
  /\ answer_chunks[1].metadata.runbook_id = answer_chunks[2].metadata.runbook_id
  /\ answer_chunks[3].metadata.runbook_id # answer_chunks[1].metadata.runbook_id
  /\ Len(C24_Lines(response.answer.context)) = 8

\* The greatest member of a non-empty set of numbers.
C25_Last(S) == CHOOSE m \in S : \A x \in S : x <= m

\* C25: in the context every chunk body has, as the nearest title line above
\* it, the title line of the document the chunk belongs to.
C25_BodyUnderOwnHeader ==
  C24_RagAnswered =>
    \A lines \in {C24_Lines(response.answer.context)} :
    \A at \in {C24_BodyAt(lines)} :
      \A i \in 1..Len(at) :
        \A above \in {{p \in 1..(at[i] - 1) : C24_IsHeader(lines[p])}} :
          /\ above # {}
          /\ lines[C25_Last(above)] = C24_HeaderOf(answer_chunks[i])

-----------------------------------------------------------------------------
(* C26: the order of the sources *)

\* C26: in every response that has a sources list, of either engine, no
\* source is followed by one of greater relevance.
C26_SourcesByRelevance ==
  (op # "none" /\ ~escaped /\ "sources" \in DOMAIN response) =>
    \A i, j \in 1..Len(response.sources) :
      i < j => ~FracLess(response.sources[i].relevance, response.sources[j].relevance)

C26_Witness ==
  /\ op = "rag_process"
  /\ ~escaped
  /\ Len(response.sources) = 2
  /\ FracLess(response.sources[2].relevance, response.sources[1].relevance)

C26_WitnessSimple ==
  /\ op = "simple_process"
  /\ ~escaped
  /\ "sources" \in DOMAIN response
  /\ Len(response.sources) = 3
  /\ FracLess(response.sources[3].relevance, response.sources[1].relevance)

-----------------------------------------------------------------------------
(* C27: documents retrieved more than once by SimpleRAGSystem *)

\* SimpleRAGSystem.process_query answered from results that passed the filter.
C27_SimpleAnswered ==
  /\ op = "simple_process"
  /\ ~escaped
  /\ "sources" \in DOMAIN response
  /\ response.sources # <<>>

\* The lines of a context that introduce a chunk of the document titled title.
C27_TitleLines(context, title) ==
  SelectSeq(SplitLines(context),
            LAMBDA line : line = <<"F", "r", "o", "m", " ", "'">> \o title \o <<"'", ":">>)

\* C27: when several results that passed the threshold belong to one
\* document, the sources of the response name that document once and the
\* context given to the answer synthesizer holds its title once.
C27_OneEntryPerDocument ==
  C27_SimpleAnswered =>
    /\ \A i, j \in 1..Len(response.sources) :
         i # j => response.sources[i].url # response.sources[j].url
    /\ response.answer.kind = "llm" =>
         \A i \in 1..Len(answer_chunks) :
           Len(C27_TitleLines(response.answer.context, answer_chunks[i].title)) = 1

-----------------------------------------------------------------------------
(* C28: chunks_found of SimpleRAGSystem.process_query *)

\* C28: in every response of SimpleRAGSystem.process_query chunks_found is
\* the number of retrieved results that passed the relevance threshold, which
\* is the number of sources, and is at most top_k = 5; a response that found
\* no coverage reports 0.
C28_ChunksFoundCountsPassing ==
  (op = "simple_process" /\ ~escaped) =>
    /\ response.chunks_found = Len(SelectSeq(results, IsMeaningful))
    /\ response.chunks_found = Len(Get(response, "sources", <<>>))
    /\ response.chunks_found <= TopK
    /\ Get(response, "suggest_creation", FALSE) => response.chunks_found = 0

-----------------------------------------------------------------------------
(* C29: RunbookIndexer.index_runbooks embeds before it clears *)

\* C29: a run of RunbookIndexer.index_runbooks changes the collection only
\* after the embeddings of all chunks were generated; a run that fails while
\* it processes the documents or generates the embeddings leaves every
\* stored record as it was.
C29_EmbedBeforeClear ==
  [][/\ (rb_pc = "idle" /\ rb_pc' # "idle") => collection' = collection
     /\ (rb_pc # "idle" /\ collection' # collection) => rb_pc \in {"embedded", "adding"}
     /\ rb_pc \in {"hung", "process_failed", "embed_failed"} => collection' = collection]_vars

C29_Witness ==
  /\ rb_pc = "embed_failed"
  /\ collection # <<>>
  /\ all_chunks # <<>>
  /\ \E i \in 1..Len(collection) :
       \A j \in 1..Len(all_chunks) : collection[i].id # all_chunks[j].id

-----------------------------------------------------------------------------
(* C30: the merges of the webhook listener *)

\* No two entries of the stored runbooks list have the same id.
C30_NoDuplicateIds ==
  \A i, j \in 1..Len(store) : i # j => store[i].id # store[j].id

\* No step removes or alters an entry that is in the file.
C30_StoredEntriesKept ==
  [][\A i \in 1..Len(store) : i <= Len(store') /\ store'[i] = store[i]]_vars

\* C30: from a file whose runbook ids are pairwise distinct, whatever the
\* webhook-triggered merges fetch and however they interleave, the stored
\* list never holds two entries with the same id and no stored entry is
\* ever removed or altered.
C30_MergeKeepsStore ==
  /\ []C30_NoDuplicateIds
  /\ C30_StoredEntriesKept

====
